---- MODULE Spec2Model ----
(***************************************************************************)
(* Werewolf engine (src/engine/transitions.ts, win.ts, utils.ts), the      *)
(* redacted view (src/shared/messages.ts), the room registry               *)
(* (src/server/store.ts) and the WebSocket gateway (src/server/ws.ts).     *)
(*                                                                         *)
(* Every gateway handler is synchronous (no await), so on Node's single    *)
(* thread it runs to completion: one handler is one action.                *)
(*                                                                         *)
(* Abstractions: a player's display name is inert payload and is left out; *)
(* randomUUID() is a fresh id taken from a pool in order; random() is a    *)
(* value k in 0..RandRes-1 standing for k/RandRes; Date.now() is the       *)
(* variable now, which advances to the next pending deadline.  What a      *)
(* handler sends is the outbox of the world it returns; a rejected action  *)
(* changes no variable, its ERROR event is the last entry of that outbox.  *)
(***************************************************************************)
EXTENDS Integers, Sequences, FiniteSets, TLC

\* ------------------------------------------------------------------ bounds
MaxIds ==
  4
MaxNights ==
  1
MaxAbsent ==
  1
MaxTargets ==
  2
RandRes ==
  2

\* ------------------------------------------------------- program constants
DefaultMinPlayers ==
  6
NightMs ==
  90000
DayDiscussionMs ==
  90000
TrialMs ==
  30000
DayVerdictMs ==
  15000
MaxTrialChat ==
  300

Null == "null"
NoGame == [none |-> TRUE]
NoCtx == [none |-> TRUE]
NoPlayer == [none |-> TRUE]
NoTimer == [none |-> TRUE]

ConnSeq == <<"c1", "c2", "c3", "c4">>
Conns == {ConnSeq[i] : i \in 1..Len(ConnSeq)}
Accounts == {"a1", "a2", "a3", "a4"}
\* the account a connection's user owns; a payload may also name another one
AccountOf(c) == CHOOSE a \in Accounts : \E i \in 1..Len(ConnSeq) :
                  ConnSeq[i] = c /\ a = <<"a1", "a2", "a3", "a4">>[i]
PidPool == [i \in 1..9 |-> <<"p1", "p2", "p3", "p4", "p5", "p6", "p7", "p8", "p9">>[i]]
PlayerIds == {PidPool[i] : i \in 1..MaxIds}
\* one room is followed; "gX" is a game id no room has
GameIds == {"g1"}
Phases == {"LOBBY", "NIGHT", "DAY_DISCUSSION", "TRIAL", "DAY_VERDICT", "GAME_OVER"}
Roles == {"SUBJECT", "TRAITOR"}
Choices == {"HANG", "SPARE"}
\* payload.minPlayers; 0 stands for an absent (falsy) value
MinPlayersInputs == {0, 4}

\* --------------------------------------------------------------- results
\* A transition returns the next snapshot, or throws GameRuleError(code, message):
\* Err(code, message).  A thrown plain Error has code "Error".
Err(code, message) == [error |-> code, message |-> <<message>>]
\* a message that interpolates a player id
ErrAbout(code, message, id) == [error |-> code, message |-> <<message, id>>]
Ok == [ok |-> TRUE]
IsErr(r) == "error" \in DOMAIN r
Some(r) == "none" \notin DOMAIN r

EmptyMap == [x \in {} |-> Null]
MapSet(m, k, v) == [x \in (DOMAIN m) \cup {k} |-> IF x = k THEN v ELSE m[x]]
SeqMap(Op(_), s) == [i \in 1..Len(s) |-> Op(s[i])]
Ids(players) == {players[i].playerId : i \in 1..Len(players)}
Floor(a, b) == a \div b
Max2(a, b) == IF a >= b THEN a ELSE b

\* ------------------------------------------------------------- utils.ts
HasPlayer(players, pid) == \E i \in 1..Len(players) : players[i].playerId = pid

getPlayer(players, pid) ==
  IF HasPlayer(players, pid)
  THEN players[CHOOSE i \in 1..Len(players) :
                 /\ players[i].playerId = pid
                 /\ \A j \in 1..(i - 1) : players[j].playerId # pid]
  ELSE NoPlayer

livingPlayers(players) == SelectSeq(players, LAMBDA p : p.alive)

countAlive(players, role) ==
  Len(SelectSeq(players, LAMBDA p : p.alive /\ p.role = role))

\* half of the living, not a strict majority
halfThreshold(aliveCount) == Floor(aliveCount, 2)

majorityThreshold(aliveCount) == Floor(aliveCount, 2) + 1

\* Math.floor(random() * n) with random() = k / RandRes
RandIndex(k, n) == Floor(k * n, RandRes)

Swap(s, i, j) == [s EXCEPT ![i] = s[j], ![j] = s[i]]

RECURSIVE ShuffleFrom(_, _, _)
ShuffleFrom(copy, i, rs) ==
  IF i <= 1 THEN copy
  ELSE ShuffleFrom(Swap(copy, i, RandIndex(rs[Len(copy) - i + 1], i) + 1), i - 1, rs)

\* Fisher-Yates; rs holds the Len(items)-1 successive values of random()
shuffle(items, rs) == ShuffleFrom(items, Len(items), rs)

randomItem(items, k) == items[RandIndex(k, Len(items)) + 1]

\* --------------------------------------------------------------- win.ts
\* a win rule that asks the traitors for a majority, not for parity
checkWinMajority(state) ==
  IF state.winner # Null THEN state.winner
  ELSE IF countAlive(state.players, "SUBJECT") + countAlive(state.players, "TRAITOR") = 0
  THEN "DRAW"
  ELSE IF countAlive(state.players, "TRAITOR") = 0 THEN "SUBJECTS"
  ELSE IF countAlive(state.players, "TRAITOR") > countAlive(state.players, "SUBJECT")
  THEN "TRAITORS"
  ELSE Null

\* a win of the traitors that waits for the last subject to die
checkWinAtExtinction(state) ==
  IF state.winner # Null THEN state.winner
  ELSE IF countAlive(state.players, "SUBJECT") + countAlive(state.players, "TRAITOR") = 0
  THEN "DRAW"
  ELSE IF countAlive(state.players, "TRAITOR") = 0 THEN "SUBJECTS"
  ELSE IF countAlive(state.players, "SUBJECT") = 0 THEN "TRAITORS"
  ELSE Null

checkWin(state) ==
  IF state.winner # Null THEN state.winner
  ELSE LET subjectsAlive == countAlive(state.players, "SUBJECT")
           traitorsAlive == countAlive(state.players, "TRAITOR")
       IN IF subjectsAlive + traitorsAlive = 0 THEN "DRAW"
          ELSE IF traitorsAlive = 0 THEN "SUBJECTS"
          ELSE IF traitorsAlive >= subjectsAlive THEN "TRAITORS"
          ELSE Null

\* a check that takes any seated player, dead or alive
assertPlayerSeated(game, pid, mustBeAlive) ==
  IF ~HasPlayer(game.players, pid) THEN ErrAbout("PLAYER_NOT_FOUND", "Player not found", pid)
  ELSE Ok

\* ------------------------------------------------------- transitions.ts
\* assertPlayer: Ok, or what it throws
assertPlayer(game, pid, mustBeAlive) ==
  IF ~HasPlayer(game.players, pid) THEN ErrAbout("PLAYER_NOT_FOUND", "Player not found", pid)
  ELSE IF mustBeAlive /\ ~getPlayer(game.players, pid).alive
  THEN ErrAbout("PLAYER_DEAD", "Player is dead", pid)
  ELSE Ok

toPlayer(accountId, playerId, isHost) ==
  [accountId |-> accountId, playerId |-> playerId, role |-> "SUBJECT",
   alive |-> TRUE, connected |-> TRUE, isHost |-> isHost]

\* a lobby left without a host when its host is gone
reassignHostNever(players) == players

reassignHost(players) ==
  IF Len(players) = 0 THEN players
  ELSE IF \E i \in 1..Len(players) : players[i].isHost THEN players
  ELSE [i \in 1..Len(players) |->
          IF i = 1 THEN [players[i] EXCEPT !.isHost = TRUE] ELSE players[i]]

\* mergeOptions: only minPlayers can be overridden by the gateway
mergeOptions(minPlayers) == IF minPlayers = 0 THEN DefaultMinPlayers ELSE minPlayers

createInitialGame(gameId, accountId, playerId, minPlayers) ==
  [gameId |-> gameId,
   players |-> <<toPlayer(accountId, playerId, TRUE)>>,
   phase |-> "LOBBY",
   dayNumber |-> 1,
   nightNumber |-> 1,
   accusedId |-> Null,
   lastKilledId |-> Null,
   phaseEndsAt |-> 0,
   winner |-> Null,
   minPlayers |-> mergeOptions(minPlayers),
   rolesAssigned |-> FALSE,
   nightVotes |-> EmptyMap,
   dayNominations |-> EmptyMap,
   verdictVotes |-> EmptyMap]

\* a join that seats an account whether or not it is seated already
addPlayerToLobbyAnyAccount(game, accountId, playerId) ==
  IF game.phase # "LOBBY" THEN Err("INVALID_PHASE", "Players can only join during the lobby phase")
  ELSE [game EXCEPT !.players = Append(game.players, toPlayer(accountId, playerId, FALSE))]

\* a join that is taken in every phase
addPlayerToLobbyAnyPhase(game, accountId, playerId) ==
  IF \E i \in 1..Len(game.players) : game.players[i].accountId = accountId
  THEN Err("DUPLICATE_ACCOUNT", "Account already joined")
  ELSE [game EXCEPT !.players = Append(game.players, toPlayer(accountId, playerId, FALSE))]

addPlayerToLobby(game, accountId, playerId) ==
  IF game.phase # "LOBBY" THEN Err("INVALID_PHASE", "Players can only join during the lobby phase")
  ELSE IF \E i \in 1..Len(game.players) : game.players[i].accountId = accountId
  THEN Err("DUPLICATE_ACCOUNT", "Account already joined")
  ELSE [game EXCEPT !.players = Append(game.players, toPlayer(accountId, playerId, FALSE))]

removePlayerFromLobby(game, playerId) ==
  IF game.phase # "LOBBY" THEN Err("INVALID_PHASE", "Players can only leave during the lobby phase")
  ELSE IF IsErr(assertPlayer(game, playerId, FALSE))
  THEN assertPlayer(game, playerId, FALSE)
  ELSE [game EXCEPT !.players =
          reassignHost(SelectSeq(game.players, LAMBDA p : p.playerId # playerId))]

\* a deal with one traitor whatever the number of players
assignRolesOneTraitor(game, rs) ==
  IF game.phase # "LOBBY" THEN Err("INVALID_PHASE", "Roles are assigned from the lobby phase")
  ELSE IF game.rolesAssigned THEN game
  ELSE [game EXCEPT
          !.players = [i \in 1..Len(game.players) |->
                         [shuffle(game.players, rs)[i] EXCEPT
                            !.role = IF i <= 1 THEN "TRAITOR" ELSE "SUBJECT",
                            !.alive = TRUE]],
          !.rolesAssigned = TRUE]

assignRoles(game, rs) ==
  IF game.phase # "LOBBY" THEN Err("INVALID_PHASE", "Roles are assigned from the lobby phase")
  ELSE IF game.rolesAssigned THEN game
  ELSE LET shuffled == shuffle(game.players, rs)
           traitorCount == Max2(1, Floor(Len(shuffled), 4))
       IN [game EXCEPT
             !.players = [i \in 1..Len(shuffled) |->
                            [shuffled[i] EXCEPT
                               !.role = IF i <= traitorCount THEN "TRAITOR" ELSE "SUBJECT",
                               !.alive = TRUE]],
             !.rolesAssigned = TRUE]

\* night ballots for every living player, whatever the role
SeedNightVotesAllLiving(players) ==
  [x \in {players[i].playerId : i \in {j \in 1..Len(players) : players[j].alive}} |-> Null]

\* startNight's ballots: one null entry per living traitor
SeedNightVotes(players) ==
  [x \in {players[i].playerId : i \in {j \in 1..Len(players) :
            players[j].alive /\ players[j].role = "TRAITOR"}} |-> Null]

\* a night that finds every player alive again
startNightRaisesTheDead(game, now_) ==
  IF game.phase \notin {"LOBBY", "DAY_DISCUSSION", "DAY_VERDICT"}
  THEN Err("INVALID_PHASE", "Night can only start from lobby or day phases")
  ELSE [game EXCEPT
          !.phase = "NIGHT",
          !.nightNumber = IF game.phase = "LOBBY" THEN game.nightNumber
                          ELSE game.nightNumber + 1,
          !.accusedId = Null,
          !.dayNominations = EmptyMap,
          !.verdictVotes = EmptyMap,
          !.nightVotes = SeedNightVotes(game.players),
          !.players = [i \in 1..Len(game.players) |-> [game.players[i] EXCEPT !.alive = TRUE]],
          !.phaseEndsAt = now_ + NightMs]

startNight(game, now_) ==
  IF game.phase \notin {"LOBBY", "DAY_DISCUSSION", "DAY_VERDICT"}
  THEN Err("INVALID_PHASE", "Night can only start from lobby or day phases")
  ELSE [game EXCEPT
          !.phase = "NIGHT",
          !.nightNumber = IF game.phase = "LOBBY" THEN game.nightNumber
                          ELSE game.nightNumber + 1,
          !.accusedId = Null,
          !.dayNominations = EmptyMap,
          !.verdictVotes = EmptyMap,
          !.nightVotes = SeedNightVotes(game.players),
          !.phaseEndsAt = now_ + NightMs]

\* a start that does not count the players
startGameAnyCount(game, now_, rs) ==
  IF game.phase # "LOBBY" THEN Err("INVALID_PHASE", "Game can only start in the lobby phase")
  ELSE IF IsErr(assignRoles(game, rs)) THEN assignRoles(game, rs)
  ELSE startNight(assignRoles(game, rs), now_)

startGame(game, now_, rs) ==
  IF game.phase # "LOBBY" THEN Err("INVALID_PHASE", "Game can only start in the lobby phase")
  ELSE IF Len(game.players) < game.minPlayers THEN Err("NOT_ENOUGH_PLAYERS", "Need more players")
  ELSE LET assigned == assignRoles(game, rs)
       IN IF IsErr(assigned) THEN assigned ELSE startNight(assigned, now_)

recordNightVote(game, traitorId, targetId) ==
  IF game.phase # "NIGHT" THEN Err("INVALID_PHASE", "Night votes only apply during the night phase")
  ELSE IF IsErr(assertPlayer(game, traitorId, TRUE))
  THEN assertPlayer(game, traitorId, TRUE)
  ELSE IF getPlayer(game.players, traitorId).role # "TRAITOR" THEN Err("NOT_A_TRAITOR", "Only traitors vote at night")
  ELSE IF IsErr(assertPlayer(game, targetId, TRUE))
  THEN assertPlayer(game, targetId, TRUE)
  ELSE [game EXCEPT !.nightVotes = MapSet(game.nightVotes, traitorId, targetId)]

\* Object.values(votes).filter(Boolean).length
CastCount(votes) == Cardinality({k \in DOMAIN votes : votes[k] # Null})

\* night votes that never count as complete
areNightVotesNeverComplete(game) == FALSE

\* areNightVotesComplete for a snapshot in NIGHT (the only phase it is called in)
areNightVotesComplete(game) ==
  LET traitorsAlive == countAlive(game.players, "TRAITOR")
  IN CastCount(game.nightVotes) = traitorsAlive /\ traitorsAlive > 0

\* The non-null values of the night-vote map in key order.  startNight inserts
\* the keys in player-list order and recordNightVote keeps that order.
VoteValues(players, votes) ==
  LET voters == SelectSeq(players, LAMBDA p : p.playerId \in DOMAIN votes)
  IN SelectSeq(SeqMap(LAMBDA p : votes[p.playerId], voters), LAMBDA v : v # Null)

\* the distinct values of s in the order of their first occurrence
Firsts(s) == {i \in 1..Len(s) : \A j \in 1..(i - 1) : s[j] # s[i]}
Nth(s, firsts) ==
  [n \in 1..Cardinality(firsts) |->
     s[CHOOSE i \in firsts : Cardinality({j \in firsts : j <= i}) = n]]
Dedup(s) == Nth(s, Firsts(s))

\* tallyVotes(votes).get(target) ?? 0
tallyVotes(votes, target) == Cardinality({k \in DOMAIN votes : votes[k] = target})

\* Math.max(...votes.values()) for the cast votes vals
TopScore(votes, vals) ==
  CHOOSE n \in 1..Len(vals) :
    /\ \E i \in 1..Len(vals) : tallyVotes(votes, vals[i]) = n
    /\ \A i \in 1..Len(vals) : tallyVotes(votes, vals[i]) <= n

\* every target that got a vote, whatever its score
LeadersOfAnyScore(votes, vals, topScore) == Dedup(vals)

\* the targets holding the top score, in the Map's insertion order
LeadersOf(votes, vals, topScore) ==
  SelectSeq(Dedup(vals), LAMBDA t : tallyVotes(votes, t) = topScore)
LeadersAmong(votes, vals) == LeadersOf(votes, vals, TopScore(votes, vals))
Leaders(players, votes) == LeadersAmong(votes, VoteValues(players, votes))

PickVictim(leaders, k) == IF Len(leaders) = 1 THEN leaders[1] ELSE randomItem(leaders, k)

\* the victim picked by resolveNight, Null when no vote was cast
NightVictim(game, k) ==
  IF CastCount(game.nightVotes) = 0 THEN Null
  ELSE PickVictim(Leaders(game.players, game.nightVotes), k)

Kill(players, pid) ==
  [i \in 1..Len(players) |->
     IF players[i].playerId = pid THEN [players[i] EXCEPT !.alive = FALSE] ELSE players[i]]

IsAlive(players, pid) == HasPlayer(players, pid) /\ getPlayer(players, pid).alive

\* a night that ends the game without recording who won
NightOutcomeNoWinner(game, baseState, winner, now_) ==
  IF winner # Null
  THEN [baseState EXCEPT
          !.phase = "GAME_OVER",
          !.dayNominations = EmptyMap,
          !.verdictVotes = EmptyMap]
  ELSE [baseState EXCEPT
          !.phase = "DAY_DISCUSSION",
          !.dayNumber = game.dayNumber + 1,
          !.accusedId = Null,
          !.dayNominations = EmptyMap,
          !.verdictVotes = EmptyMap,
          !.phaseEndsAt = now_ + DayDiscussionMs]

\* resolveNight from baseState on: GAME_OVER when checkWin names a winner
NightOutcome(game, baseState, winner, now_) ==
  IF winner # Null
  THEN [baseState EXCEPT
          !.phase = "GAME_OVER",
          !.winner = winner,
          !.dayNominations = EmptyMap,
          !.verdictVotes = EmptyMap]
  ELSE [baseState EXCEPT
          !.phase = "DAY_DISCUSSION",
          !.dayNumber = game.dayNumber + 1,
          !.accusedId = Null,
          !.dayNominations = EmptyMap,
          !.verdictVotes = EmptyMap,
          !.phaseEndsAt = now_ + DayDiscussionMs]

\* a night that names its victim whether or not the victim was alive
NightBaseNamesTheDead(game, victimId, hit, now_) ==
  [game EXCEPT
     !.players = IF hit THEN Kill(game.players, victimId) ELSE game.players,
     !.lastKilledId = victimId,
     !.nightVotes = EmptyMap,
     !.phaseEndsAt = now_]

NightBase(game, victimId, hit, now_) ==
  [game EXCEPT
     !.players = IF hit THEN Kill(game.players, victimId) ELSE game.players,
     !.lastKilledId = IF hit THEN victimId ELSE Null,
     !.nightVotes = EmptyMap,
     !.phaseEndsAt = now_]

\* a night whose winner is looked for before the kill
NightAfterJudgedBeforeKill(game, baseState, now_) ==
  NightOutcome(game, baseState, checkWin(game), now_)

NightAfter(game, baseState, now_) == NightOutcome(game, baseState, checkWin(baseState), now_)

NightKill(game, victimId, now_) ==
  NightAfter(game,
             NightBase(game, victimId, victimId # Null /\ IsAlive(game.players, victimId), now_),
             now_)

\* a night resolution that does not look at the phase
resolveNightAnyPhase(game, now_, k) == NightKill(game, NightVictim(game, k), now_)

resolveNight(game, now_, k) ==
  IF game.phase # "NIGHT"
  THEN Err("INVALID_PHASE", "Night resolution only runs from the night phase")
  ELSE NightKill(game, NightVictim(game, k), now_)

startTrial(game, accusedId, now_) ==
  IF game.phase # "DAY_DISCUSSION" THEN Err("INVALID_PHASE", "Trials start from day discussion")
  ELSE IF IsErr(assertPlayer(game, accusedId, TRUE))
  THEN assertPlayer(game, accusedId, TRUE)
  ELSE [game EXCEPT
          !.phase = "TRIAL",
          !.accusedId = accusedId,
          !.verdictVotes = EmptyMap,
          !.phaseEndsAt = now_ + TrialMs]

\* recordNomination once voter and target are known to be alive
Nominate(game, updated, targetId, now_) ==
  IF tallyVotes(updated.dayNominations, targetId)
       >= majorityThreshold(Len(livingPlayers(game.players)))
  THEN startTrial(updated, targetId, now_)
  ELSE updated

\* a nomination that does not look at the phase
recordNominationAnyPhase(game, voterId, targetId, now_) ==
  IF IsErr(assertPlayer(game, voterId, TRUE))
  THEN assertPlayer(game, voterId, TRUE)
  ELSE IF IsErr(assertPlayer(game, targetId, TRUE))
  THEN assertPlayer(game, targetId, TRUE)
  ELSE Nominate(game,
                [game EXCEPT !.dayNominations = MapSet(game.dayNominations, voterId, targetId)],
                targetId, now_)

recordNomination(game, voterId, targetId, now_) ==
  IF game.phase # "DAY_DISCUSSION"
  THEN Err("INVALID_PHASE", "Nominations only apply during day discussion")
  ELSE IF IsErr(assertPlayer(game, voterId, TRUE))
  THEN assertPlayer(game, voterId, TRUE)
  ELSE IF IsErr(assertPlayer(game, targetId, TRUE))
  THEN assertPlayer(game, targetId, TRUE)
  ELSE Nominate(game,
                [game EXCEPT !.dayNominations = MapSet(game.dayNominations, voterId, targetId)],
                targetId, now_)

\* a verdict that hands a ballot to every seated player, dead ones included
startDayVerdictSeatsAll(game, now_) ==
  IF game.phase # "TRIAL" THEN Err("INVALID_PHASE", "Verdict phase only follows a trial")
  ELSE IF game.accusedId = Null THEN Err("NO_ACCUSED", "No accused player to vote on")
  ELSE [game EXCEPT
          !.phase = "DAY_VERDICT",
          !.verdictVotes = [x \in Ids(game.players) |-> Null],
          !.phaseEndsAt = now_ + DayVerdictMs]

startDayVerdict(game, now_) ==
  IF game.phase # "TRIAL" THEN Err("INVALID_PHASE", "Verdict phase only follows a trial")
  ELSE IF game.accusedId = Null THEN Err("NO_ACCUSED", "No accused player to vote on")
  ELSE [game EXCEPT
          !.phase = "DAY_VERDICT",
          !.verdictVotes = [x \in Ids(livingPlayers(game.players)) |-> Null],
          !.phaseEndsAt = now_ + DayVerdictMs]

\* a verdict vote that puts the deadline off by the length of a verdict
recordVerdictVoteRestartsVerdict(game, voterId, choice) ==
  IF game.phase # "DAY_VERDICT"
  THEN Err("INVALID_PHASE", "Verdict votes occur during the verdict phase")
  ELSE IF IsErr(assertPlayer(game, voterId, TRUE))
  THEN assertPlayer(game, voterId, TRUE)
  ELSE IF voterId \notin DOMAIN game.verdictVotes THEN Err("NOT_A_VOTER", "Player cannot vote in this verdict")
  ELSE IF choice \notin Choices THEN Err("INVALID_CHOICE", "Choice must be HANG or SPARE")
  ELSE [game EXCEPT !.verdictVotes = MapSet(game.verdictVotes, voterId, choice),
                    !.phaseEndsAt = @ + DayVerdictMs]

recordVerdictVote(game, voterId, choice) ==
  IF game.phase # "DAY_VERDICT"
  THEN Err("INVALID_PHASE", "Verdict votes occur during the verdict phase")
  ELSE IF IsErr(assertPlayer(game, voterId, TRUE))
  THEN assertPlayer(game, voterId, TRUE)
  ELSE IF voterId \notin DOMAIN game.verdictVotes THEN Err("NOT_A_VOTER", "Player cannot vote in this verdict")
  ELSE IF choice \notin Choices THEN Err("INVALID_CHOICE", "Choice must be HANG or SPARE")
  ELSE [game EXCEPT !.verdictVotes = MapSet(game.verdictVotes, voterId, choice)]

\* areAllVerdictVotesIn for a snapshot in DAY_VERDICT
areAllVerdictVotesIn(game) ==
  \A id \in Ids(livingPlayers(game.players)) :
    id \in DOMAIN game.verdictVotes /\ game.verdictVotes[id] # Null

\* the ballots counted by resolveDayVerdict: cast, and by a living voter
Counted(game) ==
  {v \in DOMAIN game.verdictVotes :
     game.verdictVotes[v] # Null /\ v \in Ids(livingPlayers(game.players))}
\* a count that gives the hangman one ballot more
HangVotesAndOne(game) ==
  Cardinality({v \in Counted(game) : game.verdictVotes[v] = "HANG"}) + 1
HangVotes(game) == Cardinality({v \in Counted(game) : game.verdictVotes[v] = "HANG"})
SpareVotes(game) == Cardinality({v \in Counted(game) : game.verdictVotes[v] # "HANG"})

\* a baseState that keeps the accusation
VerdictBaseKeepsAccused(game, hit, now_) ==
  [game EXCEPT
     !.players = IF hit THEN Kill(game.players, game.accusedId) ELSE game.players,
     !.lastKilledId = IF hit THEN game.accusedId ELSE game.lastKilledId,
     !.verdictVotes = EmptyMap,
     !.phaseEndsAt = now_]

\* resolveDayVerdict's baseState
VerdictBase(game, hit, now_) ==
  [game EXCEPT
     !.players = IF hit THEN Kill(game.players, game.accusedId) ELSE game.players,
     !.lastKilledId = IF hit THEN game.accusedId ELSE game.lastKilledId,
     !.verdictVotes = EmptyMap,
     !.accusedId = Null,
     !.phaseEndsAt = now_]

\* resolveDayVerdict from baseState on
VerdictOutcome(baseState, winner, now_) ==
  IF winner # Null
  THEN [baseState EXCEPT !.phase = "GAME_OVER", !.winner = winner]
  ELSE startNight(baseState, now_)

\* a verdict after which the discussion resumes
VerdictAfterResumesDay(baseState, now_) ==
  IF checkWin(baseState) # Null
  THEN [baseState EXCEPT !.phase = "GAME_OVER", !.winner = checkWin(baseState)]
  ELSE [baseState EXCEPT !.phase = "DAY_DISCUSSION", !.phaseEndsAt = now_ + DayDiscussionMs]

VerdictAfter(baseState, now_) == VerdictOutcome(baseState, checkWin(baseState), now_)

resolveDayVerdict(game, now_) ==
  IF game.phase # "DAY_VERDICT" THEN Err("INVALID_PHASE", "Resolve verdict only from verdict phase")
  ELSE IF game.accusedId = Null THEN Err("NO_ACCUSED", "No accused player to resolve")
  ELSE VerdictAfter(VerdictBase(game,
                                HangVotes(game) > SpareVotes(game)
                                  /\ IsAlive(game.players, game.accusedId),
                                now_),
                    now_)

skipDayToNight(game, now_) ==
  IF game.phase # "DAY_DISCUSSION"
  THEN Err("INVALID_PHASE", "Only discussion can skip straight to night")
  ELSE startNight([game EXCEPT !.dayNominations = EmptyMap, !.accusedId = Null], now_)

\* a disconnection that vacates the seat
setPlayerConnectionOrRemove(game, playerId, connected) ==
  IF connected
  THEN [game EXCEPT !.players = [i \in 1..Len(game.players) |->
          IF game.players[i].playerId = playerId
          THEN [game.players[i] EXCEPT !.connected = TRUE] ELSE game.players[i]]]
  ELSE [game EXCEPT !.players = SelectSeq(game.players, LAMBDA p : p.playerId # playerId)]

setPlayerConnection(game, playerId, connected) ==
  IF ~HasPlayer(game.players, playerId) THEN game
  ELSE [game EXCEPT !.players =
          [i \in 1..Len(game.players) |->
             IF game.players[i].playerId = playerId
             THEN [game.players[i] EXCEPT !.connected = connected]
             ELSE game.players[i]]]

\* ------------------------------------------------------------ messages.ts
\* a view whose public player list carries each player's role
buildGameViewWithRoles(game, viewerId) ==
  IF ~HasPlayer(game.players, viewerId) THEN Err("Error", "Viewer is not part of the game")
  ELSE [gameId |-> game.gameId,
        phase |-> game.phase,
        dayNumber |-> game.dayNumber,
        nightNumber |-> game.nightNumber,
        accusedId |-> game.accusedId,
        lastKilledId |-> game.lastKilledId,
        phaseEndsAt |-> game.phaseEndsAt,
        winner |-> game.winner,
        players |-> [i \in 1..Len(game.players) |->
                       [playerId |-> game.players[i].playerId,
                        alive |-> game.players[i].alive,
                        connected |-> game.players[i].connected,
                        isHost |-> game.players[i].isHost,
                        role |-> game.players[i].role]],
        you |-> getPlayer(game.players, viewerId)]

\* buildGameView; Err when the viewer is not part of the game (a plain Error)
buildGameView(game, viewerId) ==
  IF ~HasPlayer(game.players, viewerId) THEN Err("Error", "Viewer is not part of the game")
  ELSE LET viewer == getPlayer(game.players, viewerId)
       IN [gameId |-> game.gameId,
           phase |-> game.phase,
           dayNumber |-> game.dayNumber,
           nightNumber |-> game.nightNumber,
           accusedId |-> game.accusedId,
           lastKilledId |-> game.lastKilledId,
           phaseEndsAt |-> game.phaseEndsAt,
           winner |-> game.winner,
           players |-> [i \in 1..Len(game.players) |->
                          [playerId |-> game.players[i].playerId,
                           alive |-> game.players[i].alive,
                           connected |-> game.players[i].connected,
                           isHost |-> game.players[i].isHost]],
           you |-> [playerId |-> viewer.playerId,
                    alive |-> viewer.alive,
                    connected |-> viewer.connected,
                    isHost |-> viewer.isHost,
                    role |-> viewer.role]]

\* --------------------------------------------------------------- chat.ts
\* a night channel open to every living player
resolveChatRouteOfTheLiving(game, sender) ==
  CASE game.phase \in {"LOBBY", "GAME_OVER"} -> [channel |-> game.phase, audience |-> "ROOM"]
    [] game.phase = "TRIAL" -> Err("INVALID_CHAT", "Use TRIAL_CHAT during trial")
    [] OTHER ->
         IF ~sender.alive THEN Err("INVALID_CHAT", "Dead players cannot chat during day")
         ELSE IF game.phase = "NIGHT"
         THEN [channel |-> "NIGHT_TRAITORS", audience |-> "TRAITORS_ONLY"]
         ELSE [channel |-> "DAY", audience |-> "ROOM"]

\* resolveChatRoute: the channel and audience of a sender's chat in the
\* phase of the game, or the INVALID_CHAT rejection
resolveChatRoute(game, sender) ==
  CASE game.phase = "LOBBY" -> [channel |-> "LOBBY", audience |-> "ROOM"]
    [] game.phase \in {"DAY_DISCUSSION", "DAY_VERDICT"} ->
         IF ~sender.alive THEN Err("INVALID_CHAT", "Dead players cannot chat during day")
         ELSE [channel |-> "DAY", audience |-> "ROOM"]
    [] game.phase = "TRIAL" -> Err("INVALID_CHAT", "Use TRIAL_CHAT during trial")
    [] game.phase = "NIGHT" ->
         IF ~sender.alive \/ sender.role # "TRAITOR"
         THEN Err("INVALID_CHAT", "Only living traitors may chat at night")
         ELSE [channel |-> "NIGHT_TRAITORS", audience |-> "TRAITORS_ONLY"]
    [] game.phase = "GAME_OVER" -> [channel |-> "GAME_OVER", audience |-> "ROOM"]
    [] OTHER -> Err("INVALID_CHAT", "Chat not available")

\* ------------------------------------------------------------------ state
VARIABLES
  store,      \* GameStore.games: game id -> snapshot, NoGame when absent
  contexts,   \* WebSocketGateway.contexts: socket -> ConnectionContext
  rooms,      \* WebSocketGateway.rooms: game id -> its sockets in insertion order
  timers,     \* PhaseTimer.timers: game id -> pending timeout
  now,        \* Date.now()
  uuids       \* how many player ids randomUUID() has produced

vars == <<store, contexts, rooms, timers, now, uuids>>

NoErr == [none |-> TRUE]

\* the gateway's mutable state threaded through one handler: the four maps,
\* what was sent so far, and the exception thrown (NoErr while running)
World == [store |-> store, contexts |-> contexts, rooms |-> rooms,
          timers |-> timers, uuids |-> uuids, outbox |-> <<>>, err |-> NoErr]

Throw(w, e) == [w EXCEPT !.err = e]
Thrown(w) == Some(w.err)

\* ---------------------------------------------------------------- store.ts
storeGet(w, gameId) == IF gameId \in GameIds THEN w.store[gameId] ELSE NoGame

storeSet(w, gameId, game) == [w EXCEPT !.store[gameId] = game]

\* withGame: the updater's result is stored unless it throws
withGame(w, gameId, updated) ==
  IF ~Some(storeGet(w, gameId)) THEN Throw(w, Err("Error", "Game not found"))
  ELSE IF IsErr(updated) THEN Throw(w, updated)
  ELSE storeSet(w, gameId, updated)

\* ------------------------------------------------------------------- ws.ts
send(w, m) == [w EXCEPT !.outbox = Append(@, m)]

ErrorMsg(c, e) ==
  IF e.error = "Error"
  THEN [to |-> c, type |-> "ERROR", code |-> "SERVER_ERROR", message |-> <<"Internal error">>]
  ELSE [to |-> c, type |-> "ERROR", code |-> e.error, message |-> e.message]

\* a schedule that sets a timeout in every phase
scheduleAnyPhase(w, game) ==
  [w EXCEPT !.timers[game.gameId] = [at |-> Max2(now, game.phaseEndsAt), fired |-> FALSE]]

\* a schedule that lets a pending timeout run on instead of replacing it
scheduleUnlessArmed(w, game) ==
  IF Some(w.timers[game.gameId]) /\ ~w.timers[game.gameId].fired
       /\ game.phase \notin {"LOBBY", "GAME_OVER"}
  THEN w
  ELSE [w EXCEPT !.timers[game.gameId] =
          IF game.phase \in {"LOBBY", "GAME_OVER"} THEN NoTimer
          ELSE [at |-> Max2(now, game.phaseEndsAt), fired |-> FALSE]]

\* PhaseTimer.schedule: clear, then setTimeout unless LOBBY / GAME_OVER
schedule(w, game) ==
  [w EXCEPT !.timers[game.gameId] =
     IF game.phase \in {"LOBBY", "GAME_OVER"} THEN NoTimer
     ELSE [at |-> Max2(now, game.phaseEndsAt), fired |-> FALSE]]

InRoom(w, gameId, c) == \E i \in 1..Len(w.rooms[gameId]) : w.rooms[gameId][i] = c

CanView(w, game, c) ==
  /\ Some(w.contexts[c])
  /\ ~IsErr(buildGameView(game, w.contexts[c].playerId))

\* a fan-out that the first view which cannot be built brings to an end
broadcastStateUntilFailure(w, game) ==
  LET w1 == schedule(storeSet(w, game.gameId, game), game)
      room == w.rooms[game.gameId]
      good == {n \in 0..Len(room) : \A i \in 1..n : CanView(w, game, room[i])}
      first == CHOOSE n \in good : \A m \in good : m <= n
      views == SeqMap(LAMBDA c : [to |-> c, type |-> "GAME_STATE",
                                  game |-> buildGameView(game, w.contexts[c].playerId)],
                      SubSeq(room, 1, first))
  IN [w1 EXCEPT !.outbox = @ \o views]

\* a Set is iterated in insertion order
broadcastState(w, game) ==
  LET w1 == schedule(storeSet(w, game.gameId, game), game)
      views == SeqMap(LAMBDA c : [to |-> c, type |-> "GAME_STATE",
                                  game |-> buildGameView(game, w.contexts[c].playerId)],
                      SelectSeq(w.rooms[game.gameId], LAMBDA c : CanView(w, game, c)))
  IN [w1 EXCEPT !.outbox = @ \o views]

broadcast(w, gameId, m) ==
  [w EXCEPT !.outbox = @ \o SeqMap(LAMBDA c : [m EXCEPT !.to = c], w.rooms[gameId])]

attachSocket(w, c, ctx) ==
  [w EXCEPT !.contexts[c] = ctx,
            !.rooms[ctx.gameId] = IF InRoom(w, ctx.gameId, c) THEN @ ELSE Append(@, c)]

detach(w, c) ==
  IF ~Some(w.contexts[c]) THEN w
  ELSE LET ctx == w.contexts[c]
           w1 == [w EXCEPT !.contexts[c] = NoCtx,
                           !.rooms[ctx.gameId] = SelectSeq(@, LAMBDA x : x # c)]
       IN IF ~Some(storeGet(w1, ctx.gameId)) THEN w1
          ELSE LET updated == setPlayerConnection(w1.store[ctx.gameId], ctx.playerId, FALSE)
               IN broadcastState(storeSet(w1, ctx.gameId, updated), updated)

\* requireContext, then requireValidAction: Ok or what they throw
requireValid(w, c, gameId, playerId) ==
  IF ~Some(w.contexts[c]) THEN Err("NO_CONTEXT", "Socket is not joined to a game")
  ELSE IF w.contexts[c].gameId # gameId
  THEN Err("WRONG_GAME", "Payload references another game")
  ELSE IF playerId # "" /\ w.contexts[c].playerId # playerId
  THEN Err("NOT_YOU", "Cannot act on behalf of another player")
  ELSE Ok

\* randomUUID(): a player id never produced before (an id drawn by a join that
\* is then rejected is never seen again and is not counted); the id of a room
\* no game has
NewPid(w) == PidPool[w.uuids + 1]
DrawPid(w) == [w EXCEPT !.uuids = @ + 1]
FreeGids(w) == {g \in GameIds : ~Some(w.store[g])}
NewGid(w) == CHOOSE g \in FreeGids(w) : TRUE
Least(S) == CHOOSE i \in S : \A j \in S : i <= j

handleCreateGame(w, c, p) ==
  IF Some(w.contexts[c])
  THEN Throw(w, Err("ALREADY_IN_GAME", "Socket already bound to a game"))
  ELSE LET gameId == NewGid(w)
           playerId == NewPid(w)
           game == createInitialGame(gameId, p.accountId, playerId, p.minPlayers)
           ctx == [accountId |-> p.accountId, playerId |-> playerId, gameId |-> gameId]
           w1 == attachSocket(storeSet(DrawPid(w), gameId, game), c, ctx)
           w2 == send(w1, [to |-> c, type |-> "GAME_CREATED",
                           game |-> buildGameView(game, playerId), playerId |-> playerId])
       IN broadcastState(w2, game)

handleJoinGame(w, c, p) ==
  IF Some(w.contexts[c])
  THEN Throw(w, Err("ALREADY_IN_GAME", "Socket already bound to a game"))
  ELSE LET playerId == NewPid(w)
           w1 == withGame(w, p.gameId,
                          addPlayerToLobby(storeGet(w, p.gameId), p.accountId, playerId))
       IN IF Thrown(w1) THEN w1
          ELSE LET game == w1.store[p.gameId]
                   ctx == [accountId |-> p.accountId, playerId |-> playerId,
                           gameId |-> p.gameId]
                   w2 == attachSocket(DrawPid(w1), c, ctx)
                   w3 == send(w2, [to |-> c, type |-> "PLAYER_JOINED",
                                   game |-> buildGameView(game, playerId),
                                   playerId |-> playerId])
               IN broadcastState(w3, game)

Host(game) ==
  IF \E i \in 1..Len(game.players) : game.players[i].isHost
  THEN game.players[CHOOSE i \in 1..Len(game.players) :
                      /\ game.players[i].isHost
                      /\ \A j \in 1..(i - 1) : ~game.players[j].isHost]
  ELSE NoPlayer

handleStartGame(w, c, p, rs) ==
  IF IsErr(requireValid(w, c, p.gameId, p.playerId))
  THEN Throw(w, requireValid(w, c, p.gameId, p.playerId))
  ELSE IF ~Some(storeGet(w, p.gameId)) THEN Throw(w, Err("GAME_NOT_FOUND", "Game not found"))
  ELSE LET game == storeGet(w, p.gameId)
       IN IF ~Some(Host(game)) \/ Host(game).playerId # p.playerId
          THEN Throw(w, Err("NOT_HOST", "Only the host can start the game"))
          ELSE LET next == startGame(game, now, rs)
               IN IF IsErr(next) THEN Throw(w, next) ELSE broadcastState(w, next)

\* a night vote that is recorded and left for the timer to resolve
handleNightVoteNoResolve(w, c, p, k) ==
  IF IsErr(requireValid(w, c, p.gameId, p.playerId))
  THEN Throw(w, requireValid(w, c, p.gameId, p.playerId))
  ELSE IF Thrown(withGame(w, p.gameId,
                          recordNightVote(storeGet(w, p.gameId), p.playerId, p.targetId)))
  THEN withGame(w, p.gameId, recordNightVote(storeGet(w, p.gameId), p.playerId, p.targetId))
  ELSE broadcastState(w, recordNightVote(storeGet(w, p.gameId), p.playerId, p.targetId))

handleNightVote(w, c, p, k) ==
  IF IsErr(requireValid(w, c, p.gameId, p.playerId))
  THEN Throw(w, requireValid(w, c, p.gameId, p.playerId))
  ELSE LET w1 == withGame(w, p.gameId,
                          recordNightVote(storeGet(w, p.gameId), p.playerId, p.targetId))
       IN IF Thrown(w1) THEN w1
          ELSE LET updated == w1.store[p.gameId]
                   w2 == broadcastState(w1, updated)
               IN IF areNightVotesComplete(updated)
                  THEN LET resolved == resolveNight(updated, now, k)
                       IN IF IsErr(resolved) THEN Throw(w2, resolved)
                          ELSE broadcastState(w2, resolved)
                  ELSE w2

handleDayNominate(w, c, p) ==
  IF IsErr(requireValid(w, c, p.gameId, p.playerId))
  THEN Throw(w, requireValid(w, c, p.gameId, p.playerId))
  ELSE LET w1 == withGame(w, p.gameId,
                          recordNomination(storeGet(w, p.gameId), p.playerId, p.targetId, now))
       IN IF Thrown(w1) THEN w1 ELSE broadcastState(w1, w1.store[p.gameId])

\* text.trim().length for a text of len characters, ws of them surrounding blanks
TrimLen(text) == text.len - text.ws

\* a trial chat that any bound player of the room may send
handleTrialChatOfAnyone(w, c, p) ==
  IF IsErr(requireValid(w, c, p.gameId, p.playerId))
  THEN Throw(w, requireValid(w, c, p.gameId, p.playerId))
  ELSE IF ~Some(storeGet(w, p.gameId)) THEN Throw(w, Err("GAME_NOT_FOUND", "Game not found"))
  ELSE IF storeGet(w, p.gameId).phase # "TRIAL"
  THEN Throw(w, Err("INVALID_CHAT", "Only the accused may chat during trial"))
  ELSE IF TrimLen(p.text) = 0 \/ TrimLen(p.text) > MaxTrialChat
  THEN Throw(w, Err("BAD_TEXT", "Trial chat must be 1-300 characters"))
  ELSE broadcast(w, p.gameId,
                 [to |-> c, type |-> "TRIAL_CHAT", gameId |-> p.gameId,
                  playerId |-> p.playerId, text |-> TrimLen(p.text),
                  timestamp |-> now])

handleTrialChat(w, c, p) ==
  IF IsErr(requireValid(w, c, p.gameId, p.playerId))
  THEN Throw(w, requireValid(w, c, p.gameId, p.playerId))
  ELSE IF ~Some(storeGet(w, p.gameId)) THEN Throw(w, Err("GAME_NOT_FOUND", "Game not found"))
  ELSE LET game == storeGet(w, p.gameId)
       IN IF game.phase # "TRIAL" \/ game.accusedId # p.playerId
          THEN Throw(w, Err("INVALID_CHAT", "Only the accused may chat during trial"))
          ELSE IF TrimLen(p.text) = 0 \/ TrimLen(p.text) > MaxTrialChat
          THEN Throw(w, Err("BAD_TEXT", "Trial chat must be 1-300 characters"))
          ELSE broadcast(w, p.gameId,
                         [to |-> c, type |-> "TRIAL_CHAT", gameId |-> p.gameId,
                          playerId |-> p.playerId, text |-> TrimLen(p.text),
                          timestamp |-> now])

handleVerdictVote(w, c, p) ==
  IF IsErr(requireValid(w, c, p.gameId, p.playerId))
  THEN Throw(w, requireValid(w, c, p.gameId, p.playerId))
  ELSE LET w1 == withGame(w, p.gameId,
                          recordVerdictVote(storeGet(w, p.gameId), p.playerId, p.choice))
       IN IF Thrown(w1) THEN w1
          ELSE LET updated == w1.store[p.gameId]
                   w2 == broadcastState(w1, updated)
               IN IF areAllVerdictVotesIn(updated)
                  THEN LET resolved == resolveDayVerdict(updated, now)
                       IN IF IsErr(resolved) THEN Throw(w2, resolved)
                          ELSE broadcastState(w2, resolved)
                  ELSE w2

handleLeaveGame(w, c, p) ==
  IF IsErr(requireValid(w, c, p.gameId, p.playerId))
  THEN Throw(w, requireValid(w, c, p.gameId, p.playerId))
  ELSE IF ~Some(storeGet(w, p.gameId)) THEN Throw(w, Err("GAME_NOT_FOUND", "Game not found"))
  ELSE LET game == storeGet(w, p.gameId)
           updated == IF game.phase = "LOBBY" THEN removePlayerFromLobby(game, p.playerId)
                      ELSE setPlayerConnection(game, p.playerId, FALSE)
       IN IF IsErr(updated) THEN Throw(w, updated)
          ELSE detach(broadcastState(w, updated), c)

\* a catch that also drops the sender's connection
CaughtAndDropped(c, w) == IF Thrown(w) THEN send(detach(w, c), ErrorMsg(c, w.err)) ELSE w

\* handleClientMessage around the handler it dispatches to: what the handler
\* throws is caught and sent as an ERROR to the sender alone
Caught(c, w) == IF Thrown(w) THEN send(w, ErrorMsg(c, w.err)) ELSE w

\* a timeout that lets a trial wait for the accused
TimeoutTransitionWaitsOnTrial(game, k) ==
  CASE game.phase = "NIGHT" -> resolveNight(game, now, k)
    [] game.phase = "DAY_DISCUSSION" -> skipDayToNight(game, now)
    [] game.phase = "DAY_VERDICT" -> resolveDayVerdict(game, now)
    [] OTHER -> NoGame

\* onPhaseTimeout: the timeout transition of the stored phase
TimeoutTransition(game, k) ==
  CASE game.phase = "NIGHT" -> resolveNight(game, now, k)
    [] game.phase = "DAY_DISCUSSION" -> skipDayToNight(game, now)
    [] game.phase = "TRIAL" -> startDayVerdict(game, now)
    [] game.phase = "DAY_VERDICT" -> resolveDayVerdict(game, now)
    [] OTHER -> NoGame

\* a timeout that stores its transition and tells nobody
onPhaseTimeoutUntold(w, gameId, k) ==
  IF ~Some(storeGet(w, gameId)) THEN w
  ELSE IF IsErr(TimeoutTransition(w.store[gameId], k)) \/ ~Some(TimeoutTransition(w.store[gameId], k))
  THEN w
  ELSE storeSet(w, gameId, TimeoutTransition(w.store[gameId], k))

onPhaseTimeout(w, gameId, k) ==
  IF ~Some(storeGet(w, gameId)) THEN w
  ELSE LET next == TimeoutTransition(w.store[gameId], k)
       IN IF IsErr(next) \/ ~Some(next) THEN w ELSE broadcastState(w, next)

\* ---------------------------------------------------------------- actions
Init ==
  /\ store = [g \in GameIds |-> NoGame]
  /\ contexts = [c \in Conns |-> NoCtx]
  /\ rooms = [g \in GameIds |-> <<>>]
  /\ timers = [g \in GameIds |-> NoTimer]
  /\ now = 0
  /\ uuids = 0

\* the variables after a handler that left the gateway as w
Commit(w) ==
  /\ store' = w.store
  /\ contexts' = w.contexts
  /\ rooms' = w.rooms
  /\ timers' = w.timers
  /\ uuids' = w.uuids
  /\ UNCHANGED now

\* what a client may put in a payload
PayloadGids == GameIds \cup {"gX"}
PayloadPids == PlayerIds \cup {""}
\* the ids the sender is bound to (the first ones when it is bound to none)
Own(c) ==
  IF Some(contexts[c]) THEN <<contexts[c].gameId, contexts[c].playerId>>
  ELSE <<"g1", PidPool[1]>>
\* the id of another player
Other(c) == IF Own(c)[2] = PidPool[1] THEN PidPool[2] ELSE PidPool[1]
\* the ids of a payload: the sender's own, or these with the id of no room,
\* with no player id, with another player's id
Payloads(c) == {Own(c), <<"gX", Own(c)[2]>>, <<Own(c)[1], "">>, <<Own(c)[1], Other(c)>>}
\* a payload's ids and its further field: every value of the field with the
\* sender's own ids, one value with the other ids
Inputs(c, xs) ==
  {in \in Payloads(c) \X xs : in[1] = Own(c) \/ in[2] = (CHOOSE x \in xs : TRUE)}
\* the players a ballot names: those seated after the first
Targets == {PidPool[i] : i \in 2..(MaxTargets + 1)}
PayloadChoices == Choices \cup {"ABSTAIN"}
Texts == {[len |-> 2, ws |-> 2], [len |-> 5, ws |-> 1], [len |-> 302, ws |-> 1]}
Rand == 0..(RandRes - 1)
\* a handler's calls of random() return one value, k in Rand

\* users arrive in the order of ConnSeq: c connects once the accounts of the
\* connections before it are seated
SeatedAccounts ==
  UNION {{store[g].players[i].accountId : i \in 1..Len(store[g].players)} :
           g \in {x \in GameIds : Some(store[x])}}
Arrived(c) ==
  \A j \in 1..Len(ConnSeq) :
    (\E i \in (j + 1)..Len(ConnSeq) : ConnSeq[i] = c) => AccountOf(ConnSeq[j]) \in SeatedAccounts

\* at most MaxAbsent seated players are away at a time
Absent ==
  UNION {{i \in 1..Len(store[g].players) : ~store[g].players[i].connected} :
           g \in {x \in GameIds : Some(store[x])}}
MayDepart(c) ==
  \/ ~Some(contexts[c])
  \/ Cardinality(Absent) < MaxAbsent

\* the exploration stops after MaxNights nights
InBounds == \A g \in GameIds : Some(store[g]) => store[g].nightNumber <= MaxNights

\* a pending timeout whose delay has elapsed
Due(g) == Some(timers[g]) /\ ~timers[g].fired /\ timers[g].at <= now

\* a frame or a close is handled before the deadline or after the timeout ran
Ready == InBounds /\ \A g \in GameIds : ~Due(g)

\* the values of random() matter only to a handler that draws them
Drawn(w, k) == k = 0 \/ ~Thrown(w)

CreateGame ==
  \E c \in Conns, minPlayers \in MinPlayersInputs :
    /\ Ready
    /\ Some(contexts[c]) \/ (Arrived(c) /\ FreeGids(World) # {} /\ uuids < MaxIds)
    /\ Commit(Caught(c, handleCreateGame(World, c,
                 [accountId |-> AccountOf(c), minPlayers |-> minPlayers])))

JoinGame ==
  \E c \in Conns, gameId \in PayloadGids :
    \E accountId \in {AccountOf(c), "a1"} :
      /\ Ready
      /\ Some(contexts[c]) \/ (Arrived(c) /\ uuids < MaxIds)
      /\ Commit(Caught(c, handleJoinGame(World, c,
                   [gameId |-> gameId, accountId |-> accountId])))

StartGame ==
  \E c \in Conns, k \in Rand : \E id \in Payloads(c) :
    LET w == handleStartGame(World, c, [gameId |-> id[1], playerId |-> id[2]],
                             [i \in 1..(MaxIds - 1) |-> k])
    IN Ready /\ Drawn(w, k) /\ Commit(Caught(c, w))

LeaveGame ==
  \E c \in Conns : \E id \in Payloads(c) :
    /\ Ready /\ MayDepart(c)
    /\ Commit(Caught(c, handleLeaveGame(World, c, [gameId |-> id[1], playerId |-> id[2]])))

NightVote ==
  \E c \in Conns, k \in Rand : \E in \in Inputs(c, Targets) :
    LET w == handleNightVote(World, c, [gameId |-> in[1][1], playerId |-> in[1][2],
                                        targetId |-> in[2]], k)
    IN Ready /\ Drawn(w, k) /\ Commit(Caught(c, w))

DayNominate ==
  \E c \in Conns : \E in \in Inputs(c, Targets) :
    Ready /\ Commit(Caught(c, handleDayNominate(World, c,
             [gameId |-> in[1][1], playerId |-> in[1][2], targetId |-> in[2]])))

TrialChat ==
  \E c \in Conns : \E in \in Inputs(c, Texts) :
    Ready /\ Commit(Caught(c, handleTrialChat(World, c,
             [gameId |-> in[1][1], playerId |-> in[1][2], text |-> in[2]])))

VerdictVote ==
  \E c \in Conns : \E in \in Inputs(c, PayloadChoices) :
    Ready /\ Commit(Caught(c, handleVerdictVote(World, c,
             [gameId |-> in[1][1], playerId |-> in[1][2], choice |-> in[2]])))

\* socket.on("close")
Close ==
  \E c \in Conns : Ready /\ MayDepart(c) /\ Commit(detach(World, c))

\* a timeout whose delay has elapsed runs onPhaseTimeout
TimerFire ==
  \E g \in GameIds, k \in Rand :
    LET w == [World EXCEPT !.timers[g].fired = TRUE]
    IN /\ InBounds /\ Due(g)
       /\ k = 0 \/ (Some(store[g]) /\ store[g].phase = "NIGHT")
       /\ Commit(onPhaseTimeout(w, g, k))

Pending == {timers[g].at : g \in {x \in GameIds : Some(timers[x]) /\ ~timers[x].fired}}

\* time passes up to the next deadline
AdvanceClock ==
  /\ InBounds
  /\ \E t \in Pending : t > now
  /\ now' = Least({t \in Pending : t > now})
  /\ UNCHANGED <<store, contexts, rooms, timers, uuids>>

Next ==
  \/ CreateGame
  \/ JoinGame
  \/ StartGame
  \/ LeaveGame
  \/ NightVote
  \/ DayNominate
  \/ TrialChat
  \/ VerdictVote
  \/ Close
  \/ TimerFire
  \/ AdvanceClock

Spec == Init /\ [][Next]_vars

\* ------------------------------------------------------ views of the state
Stored == {store[g] : g \in {x \in GameIds : Some(store[x])}}
Bound == {c \in Conns : Some(contexts[c])}
LivingIds(game) == Ids(livingPlayers(game.players))
DeadIds(game) == Ids(game.players) \ LivingIds(game)
LivingTraitors(game) ==
  {game.players[i].playerId : i \in {j \in 1..Len(game.players) :
     game.players[j].alive /\ game.players[j].role = "TRAITOR"}}
NoDraw == [i \in 1..(MaxIds - 1) |-> 0]

\* ------------------------------------------------- the rules engine alone
\* The transitions applied to snapshots drawn from bounded sets: MaxSeats
\* players seated, every assignment of roles and lives, every ballot map over
\* EngineTargets.
MaxSeats ==
  5
EngineSteps ==
  1
MaxLobby ==
  8
AccountPool == <<"a1", "a2", "a3", "a4", "a5", "a6", "a7", "a8", "a9">>
EngineTargets == {PidPool[1], PidPool[2]}

\* the lobby of n players that createInitialGame and addPlayerToLobby build
RECURSIVE LobbyOf(_)
LobbyOf(n) ==
  IF n = 1 THEN createInitialGame("g1", AccountPool[1], PidPool[1], 3)
  ELSE addPlayerToLobby(LobbyOf(n - 1), AccountPool[n], PidPool[n])

\* game with roles and lives dealt as roleOf and aliveOf say
Cast(game, roleOf, aliveOf) ==
  [game EXCEPT
     !.players = [i \in 1..Len(game.players) |->
                    [game.players[i] EXCEPT !.role = roleOf[i], !.alive = aliveOf[i]]],
     !.rolesAssigned = TRUE]

\* the non-null entries of a ballot map
Restrict(f) == [x \in {y \in DOMAIN f : f[y] # Null} |-> f[x]]

\* nights: any roles and lives, any votes of the living traitors
NightDrawsOf(night) ==
  {[night EXCEPT !.nightVotes = v] :
     v \in [DOMAIN night.nightVotes -> EngineTargets \cup {Null}]}
NightDraws(n) ==
  UNION {NightDrawsOf(startNight(Cast(LobbyOf(n), roleOf, aliveOf), 0)) :
           roleOf \in [1..n -> Roles], aliveOf \in [1..n -> BOOLEAN]}

\* days: the roles assignRoles deals, any lives that leave the game open, as
\* a night without a vote leaves them
Dealt(n) == assignRoles(LobbyOf(n), [i \in 1..(n - 1) |-> 0])
Days(n) ==
  {day \in {resolveNight(startNight(Cast(Dealt(n), [i \in 1..n |-> Dealt(n).players[i].role],
                                         aliveOf), 0), 0, 0) :
              aliveOf \in [1..n -> BOOLEAN]} :
     day.phase = "DAY_DISCUSSION"}

\* any nominations among the living that have not yet reached the majority
DayDrawsOf(day) ==
  {[day EXCEPT !.dayNominations = Restrict(n)] :
     n \in {m \in [LivingIds(day) -> (EngineTargets \cap LivingIds(day)) \cup {Null}] :
              \A t \in EngineTargets :
                tallyVotes(m, t) < majorityThreshold(Cardinality(LivingIds(day)))}}
DayDraws(n) == UNION {DayDrawsOf(day) : day \in Days(n)}

\* verdicts: any living accused, any ballots of the living
VerdictDrawsOf(verdict) ==
  {[verdict EXCEPT !.verdictVotes = v] :
     v \in [DOMAIN verdict.verdictVotes -> Choices \cup {Null}]}
VerdictsOf(day) ==
  UNION {VerdictDrawsOf(startDayVerdict(startTrial(day, accusedId, 0), 0)) :
           accusedId \in LivingIds(day)}
VerdictDraws(n) == UNION {VerdictsOf(day) : day \in Days(n)}

EngineDraws(n) == NightDraws(n) \cup DayDraws(n) \cup VerdictDraws(n)

\* lobbies of 3 to n players, and the values random() returns to a shuffle
Lobbies(n) == {LobbyOf(m) : m \in 3..n}
Shuffles(n) == [1..(n - 1) -> Rand]

EngineInit ==
  /\ \E game \in EngineDraws(MaxSeats) \cup Lobbies(MaxLobby) :
       store = [g \in GameIds |-> game]
  /\ contexts = [c \in Conns |-> NoCtx]
  /\ rooms = [g \in GameIds |-> <<>>]
  /\ timers = [g \in GameIds |-> NoTimer]
  /\ now = 0
  /\ uuids = 0

\* a transition's result replaces the snapshot; each call comes a tick later
Applied(g, next) ==
  /\ now < EngineSteps
  /\ ~IsErr(next)
  /\ store' = [store EXCEPT ![g] = next]
  /\ now' = now + 1
  /\ UNCHANGED <<contexts, rooms, timers, uuids>>

ResolveNight ==
  \E g \in GameIds, k \in Rand :
    store[g].phase = "NIGHT" /\ Applied(g, resolveNight(store[g], now, k))

RecordNomination ==
  \E g \in GameIds : \E voterId \in Ids(store[g].players), targetId \in EngineTargets :
    Applied(g, recordNomination(store[g], voterId, targetId, now))

ResolveDayVerdict ==
  \E g \in GameIds :
    store[g].phase = "DAY_VERDICT" /\ Applied(g, resolveDayVerdict(store[g], now))

\* the roles dealt to a lobby, and the game started from a lobby
AssignRoles ==
  \E g \in GameIds, rs \in Shuffles(MaxLobby) :
    /\ store[g].phase = "LOBBY" /\ ~store[g].rolesAssigned
    /\ ~IsErr(assignRoles(store[g], rs))
    /\ store' = [store EXCEPT ![g] = assignRoles(store[g], rs)]
    /\ UNCHANGED <<contexts, rooms, timers, now, uuids>>

StartFromLobby ==
  \E g \in GameIds, rs \in Shuffles(MaxLobby) :
    /\ store[g].phase = "LOBBY"
    /\ ~IsErr(startGame(store[g], now, rs))
    /\ store' = [store EXCEPT ![g] = startGame(store[g], now, rs)]
    /\ UNCHANGED <<contexts, rooms, timers, now, uuids>>

EngineNext ==
  \/ ResolveNight
  \/ RecordNomination
  \/ ResolveDayVerdict
  \/ AssignRoles
  \/ StartFromLobby

EngineSpec == EngineInit /\ [][EngineNext]_vars

\* ------------------------------------------- the timers, fairly scheduled
\* The event loop runs a timeout whose delay has elapsed, and time passes:
\* weak fairness of TimerFire and of AdvanceClock. WF_vars(A) is written out
\* as []<>~ENABLED <<A>>_vars \/ []<><<A>>_vars, with the enabling condition
\* of each action stated as a state predicate: a TimerFire step is possible
\* exactly when a timer is due (it marks the timer fired or replaces it, so it
\* never stutters), an AdvanceClock step exactly when a deadline is ahead.
TimerDue == InBounds /\ \E g \in GameIds : Due(g)
ClockBehind == InBounds /\ \E t \in Pending : t > now
TimerDueIsEnabled == TimerDue <=> ENABLED <<TimerFire>>_vars
ClockBehindIsEnabled == ClockBehind <=> ENABLED <<AdvanceClock>>_vars
FairTimers == []<>~TimerDue \/ []<><<TimerFire>>_vars
FairClock == []<>~ClockBehind \/ []<><<AdvanceClock>>_vars
FairSpec == Spec /\ FairTimers /\ FairClock

\* --------------------------------------------------------- a room of three
\* the gateway as a handler left it, before the next frame
Settled(w) == [w EXCEPT !.outbox = <<>>]

Blank ==
  [store |-> [g \in GameIds |-> NoGame], contexts |-> [c \in Conns |-> NoCtx],
   rooms |-> [g \in GameIds |-> <<>>], timers |-> [g \in GameIds |-> NoTimer],
   uuids |-> 0, outbox |-> <<>>, err |-> NoErr]

\* CREATE_GAME with minPlayers 3, then two JOIN_GAME
HostSeated == handleCreateGame(Blank, "c1", [accountId |-> "a1", minPlayers |-> 3])
TwoSeated == handleJoinGame(Settled(HostSeated), "c2", [gameId |-> "g1", accountId |-> "a2"])
ThreeSeated == handleJoinGame(Settled(TwoSeated), "c3", [gameId |-> "g1", accountId |-> "a3"])

RoomOfThreeInit ==
  /\ now = 0
  /\ store = ThreeSeated.store
  /\ contexts = ThreeSeated.contexts
  /\ rooms = ThreeSeated.rooms
  /\ timers = ThreeSeated.timers
  /\ uuids = ThreeSeated.uuids

\* nobody else arrives
RoomOfThreeNext ==
  \/ StartGame
  \/ LeaveGame
  \/ NightVote
  \/ DayNominate
  \/ TrialChat
  \/ VerdictVote
  \/ Close
  \/ TimerFire
  \/ AdvanceClock

RoomOfThreeSpec == RoomOfThreeInit /\ [][RoomOfThreeNext]_vars

\* -------------------------------------------------------------- properties
SameGateway(w) ==
  /\ w.store = store
  /\ w.timers = timers
  /\ w.contexts = contexts
  /\ w.rooms = rooms

\* DAY_NOMINATE of target t under the sender's own ids
Nom(c, t) == [gameId |-> contexts[c].gameId, playerId |-> contexts[c].playerId, targetId |-> t]

\* what the second nomination (c2 naming t2) does to the gateway w1 that the
\* first (c1 naming t1, accepted) left
SecondNomination(g, t1, w1, c2, t2, w2) ==
  IF w1.store[g].phase = "TRIAL"
  THEN /\ w1.store[g].accusedId = t1
       /\ Thrown(w2)
       /\ w2.err.error = "INVALID_PHASE"
       /\ w2.store = w1.store
       /\ w2.timers = w1.timers
  ELSE ~Thrown(w2) =>
         /\ DOMAIN w2.store[g].dayNominations
              = DOMAIN w1.store[g].dayNominations \cup {contexts[c2].playerId}
         /\ \A v \in DOMAIN w2.store[g].dayNominations :
              w2.store[g].dayNominations[v] =
                IF v = contexts[c2].playerId THEN t2 ELSE w1.store[g].dayNominations[v]
         /\ w2.store[g].phase \in {"DAY_DISCUSSION", "TRIAL"}
         /\ w2.store[g].phase = "TRIAL" => w2.store[g].accusedId = t2

FirstNomination(g, c1, t1, w1, c2, t2) ==
  ~Thrown(w1) =>
    /\ DOMAIN w1.store[g].dayNominations
         = DOMAIN store[g].dayNominations \cup {contexts[c1].playerId}
    /\ \A v \in DOMAIN w1.store[g].dayNominations :
         w1.store[g].dayNominations[v] =
           IF v = contexts[c1].playerId THEN t1 ELSE store[g].dayNominations[v]
    /\ SecondNomination(g, t1, w1, c2, t2, handleDayNominate(Settled(w1), c2, Nom(c2, t2)))

\* C1: two DAY_NOMINATE frames of one room are handled one after the other,
\* in either order: the second is applied to the snapshot the first left, so
\* every nomination recorded before it is still there (no lost update); when
\* the first reaches the majority and starts the trial of its target, the
\* second is rejected with INVALID_PHASE, the snapshot and the accused stay,
\* and no second trial starts.
C1_NominationsSerialized ==
  \A c1 \in Bound, c2 \in Bound, t1 \in PlayerIds, t2 \in PlayerIds :
    (/\ c1 # c2
     /\ contexts[c1].gameId = contexts[c2].gameId
     /\ store[contexts[c1].gameId].phase = "DAY_DISCUSSION")
    => FirstNomination(contexts[c1].gameId, c1, t1,
                       handleDayNominate(World, c1, Nom(c1, t1)), c2, t2)

\* a discussion in which a nomination starts the trial and the next one,
\* by another player, is turned down
C1_SecondNominationRejected ==
  \E c1 \in Bound, c2 \in Bound, t1 \in PlayerIds, t2 \in PlayerIds :
    /\ c1 # c2
    /\ store[contexts[c1].gameId].phase = "DAY_DISCUSSION"
    /\ ~Thrown(handleDayNominate(World, c1, Nom(c1, t1)))
    /\ handleDayNominate(World, c1, Nom(c1, t1)).store[contexts[c1].gameId].phase = "TRIAL"
    /\ Thrown(handleDayNominate(Settled(handleDayNominate(World, c1, Nom(c1, t1))),
                                c2, Nom(c2, t2)))
    /\ store[contexts[c1].gameId].dayNominations # EmptyMap

\* C2: a snapshot without roles is in LOBBY, and startNight turns down a
\* LOBBY snapshot whose roles are not assigned.
C2_NoNightWithoutRoles ==
  \A game \in Stored :
    /\ ~game.rolesAssigned => game.phase = "LOBBY"
    /\ (game.phase = "LOBBY" /\ ~game.rolesAssigned) => IsErr(startNight(game, now))

\* C3: a snapshot names a winner if and only if its phase is GAME_OVER.
C3_WinnerIffGameOver ==
  \A game \in Stored : (game.winner # Null) <=> (game.phase = "GAME_OVER")

\* a game that a night ended, and one that a verdict ended
C3_GameOverReached ==
  \E game \in Stored :
    game.phase = "GAME_OVER" /\ game.winner \in {"SUBJECTS", "TRAITORS"}
      /\ game.lastKilledId # Null

\* C4: in NIGHT the keys of the night-vote map are exactly the living
\* traitors.
C4_NightBallotsAreLivingTraitors ==
  \A game \in Stored :
    game.phase = "NIGHT" => DOMAIN game.nightVotes = LivingTraitors(game)

\* a later night, with a dead player and an absent one
C4_NightWithDeadPlayer ==
  \E game \in Stored :
    /\ game.phase = "NIGHT"
    /\ game.nightNumber > 1
    /\ DeadIds(game) # {}
    /\ DOMAIN game.nightVotes # {}
    /\ \E i \in 1..Len(game.players) : ~game.players[i].connected

\* C5: in DAY_VERDICT the keys of the verdict-vote map are exactly the living
\* players, the accused included.
C5_VerdictBallotsAreLiving ==
  \A game \in Stored :
    game.phase = "DAY_VERDICT" =>
      DOMAIN game.verdictVotes = LivingIds(game) /\ game.accusedId \in DOMAIN game.verdictVotes

\* a verdict with a dead player seated and a ballot cast
C5_VerdictWithDeadPlayer ==
  \E game \in Stored :
    /\ game.phase = "DAY_VERDICT"
    /\ DeadIds(game) # {}
    /\ \E v \in DOMAIN game.verdictVotes : game.verdictVotes[v] # Null

\* C6: accusedId is set only in TRIAL and DAY_VERDICT; every snapshot in
\* LOBBY, NIGHT, DAY_DISCUSSION or GAME_OVER has it null, and so has the
\* snapshot every timeout transition produces for these phases.
C6_AccusedOnlyOnTrial ==
  \A game \in Stored :
    /\ game.accusedId # Null => game.phase \in {"TRIAL", "DAY_VERDICT"}
    /\ game.phase \in {"TRIAL", "DAY_VERDICT"} => game.accusedId \in LivingIds(game)
    /\ \A k \in Rand :
         (Some(TimeoutTransition(game, k)) /\ ~IsErr(TimeoutTransition(game, k))
            /\ TimeoutTransition(game, k).phase \in {"NIGHT", "DAY_DISCUSSION", "GAME_OVER"})
         => TimeoutTransition(game, k).accusedId = Null

\* a game that a hanging ended: the nominations of that day are still there
C6_GameOverAfterVerdict ==
  \E game \in Stored :
    /\ game.phase = "GAME_OVER"
    /\ game.dayNominations # EmptyMap
    /\ game.accusedId = Null

\* ballot maps to put in place of a snapshot's: <<night, nominations, verdict>>
BallotSamples(game) ==
  {<<EmptyMap, EmptyMap, EmptyMap>>,
   <<[x \in Ids(game.players) |-> Null], [x \in Ids(game.players) |-> game.players[1].playerId],
     [x \in Ids(game.players) |-> "HANG"]>>,
   <<[x \in Ids(game.players) |-> game.players[Len(game.players)].playerId], EmptyMap,
     [x \in Ids(game.players) |-> "SPARE"]>>}

\* game with the roles of the players other than the viewer, and the ballots, replaced
Disguised(game, viewerId, rolesOf, ballots) ==
  [game EXCEPT
     !.players = [i \in 1..Len(game.players) |->
                    IF game.players[i].playerId = viewerId THEN game.players[i]
                    ELSE [game.players[i] EXCEPT !.role = rolesOf[i]]],
     !.nightVotes = ballots[1],
     !.dayNominations = ballots[2],
     !.verdictVotes = ballots[3]]

\* C7: the view built for a viewer is the same for two snapshots that differ
\* only in the roles of the other players and in the three ballot maps.
C7_ViewHidesOthers ==
  \A game \in Stored :
    \A viewerId \in Ids(game.players), rolesOf \in [1..Len(game.players) -> Roles],
       ballots \in BallotSamples(game) :
      buildGameView(Disguised(game, viewerId, rolesOf, ballots), viewerId)
        = buildGameView(game, viewerId)

\* a verdict under way, seen by a subject seated with the traitor
C7_SubjectViewsVerdict ==
  \E game \in Stored :
    /\ game.phase = "DAY_VERDICT"
    /\ \E v \in DOMAIN game.verdictVotes : game.verdictVotes[v] # Null
    /\ \E i, j \in 1..Len(game.players) :
         /\ game.players[i].role = "SUBJECT"
         /\ game.players[j].role = "TRAITOR"
         /\ ~IsErr(buildGameView(game, game.players[i].playerId))

\* an action is turned down and no snapshot changes
TurnedDown(w) == Thrown(w) /\ w.store = store

\* C8: a bound connection whose frame names another room, or a player id
\* other than the bound one, is turned down (WRONG_GAME, NOT_YOU) whatever the
\* action, and no snapshot changes.  (The error codes are not asked for here:
\* what fails is the rejection itself.)
C8_ForeignIdsTurnedDown ==
  \A c \in Bound, gameId \in PayloadGids, playerId \in PayloadPids :
    (gameId # contexts[c].gameId \/ playerId # contexts[c].playerId) =>
      /\ TurnedDown(handleStartGame(World, c, [gameId |-> gameId, playerId |-> playerId], NoDraw))
      /\ TurnedDown(handleLeaveGame(World, c, [gameId |-> gameId, playerId |-> playerId]))
      /\ \A t \in PlayerIds :
           /\ TurnedDown(handleNightVote(World, c, [gameId |-> gameId, playerId |-> playerId,
                                                    targetId |-> t], 0))
           /\ TurnedDown(handleDayNominate(World, c, [gameId |-> gameId, playerId |-> playerId,
                                                      targetId |-> t]))
      /\ \A text \in Texts :
           TurnedDown(handleTrialChat(World, c, [gameId |-> gameId, playerId |-> playerId,
                                                 text |-> text]))
      /\ \A choice \in Choices :
           TurnedDown(handleVerdictVote(World, c, [gameId |-> gameId, playerId |-> playerId,
                                                   choice |-> choice]))

\* a handler threw: the gateway is as it was and the one event sent is the
\* ERROR to the sender
Rejection(c, w) ==
  Thrown(w) => SameGateway(Caught(c, w)) /\ Caught(c, w).outbox = <<ErrorMsg(c, w.err)>>

\* C9: when a client action is rejected, by a transition or by the gateway's
\* own checks, the stored snapshots, the pending timers, the bindings and the
\* rooms are what they were, and the one event sent is an ERROR to the sender.
C9_RejectionChangesNothing ==
  \A c \in Conns :
    /\ \A id \in Payloads(c) :
         /\ Rejection(c, handleStartGame(World, c, [gameId |-> id[1], playerId |-> id[2]], NoDraw))
         /\ Rejection(c, handleLeaveGame(World, c, [gameId |-> id[1], playerId |-> id[2]]))
    /\ \A in \in Inputs(c, Targets) :
         /\ Rejection(c, handleNightVote(World, c, [gameId |-> in[1][1], playerId |-> in[1][2],
                                                   targetId |-> in[2]], 0))
         /\ Rejection(c, handleDayNominate(World, c, [gameId |-> in[1][1], playerId |-> in[1][2],
                                                     targetId |-> in[2]]))
    /\ \A in \in Inputs(c, Texts) :
         Rejection(c, handleTrialChat(World, c, [gameId |-> in[1][1], playerId |-> in[1][2],
                                                text |-> in[2]]))
    /\ \A in \in Inputs(c, PayloadChoices) :
         Rejection(c, handleVerdictVote(World, c, [gameId |-> in[1][1], playerId |-> in[1][2],
                                                  choice |-> in[2]]))
    /\ \A gameId \in PayloadGids, accountId \in {AccountOf(c), "a1"} :
         Rejection(c, handleJoinGame(World, c, [gameId |-> gameId, accountId |-> accountId]))
    /\ Some(contexts[c]) =>
         Rejection(c, handleCreateGame(World, c, [accountId |-> AccountOf(c), minPlayers |-> 0]))

\* a trial with its timer pending and two players connected, in which a
\* nomination and a ballot with no valid choice are both turned down
C9_RejectedDuringVerdict ==
  \E c \in Bound, d \in Bound :
    /\ c # d
    /\ store[contexts[c].gameId].phase = "DAY_VERDICT"
    /\ Some(timers[contexts[c].gameId])
    /\ Thrown(handleDayNominate(World, c, Nom(c, contexts[d].playerId)))
    /\ Thrown(handleVerdictVote(World, c, [gameId |-> contexts[c].gameId,
                                          playerId |-> contexts[c].playerId,
                                          choice |-> "ABSTAIN"]))

\* resolveNight turns down every snapshot that is not in NIGHT
NightOnly ==
  \A game \in Stored, k \in Rand :
    game.phase # "NIGHT" =>
      IsErr(resolveNight(game, now, k)) /\ resolveNight(game, now, k).error = "INVALID_PHASE"

\* a step of the gateway, for one room: at most one player dies; nobody dies
\* while the night lasts; a night ends in DAY_DISCUSSION or in GAME_OVER,
\* within the same night number
NightStep(a, b) ==
  /\ DeadIds(a) \subseteq DeadIds(b)
  /\ Cardinality(DeadIds(b) \ DeadIds(a)) <= 1
  /\ (a.phase = "NIGHT" /\ b.phase = "NIGHT") =>
       DeadIds(b) = DeadIds(a) /\ b.nightNumber = a.nightNumber
  /\ (a.phase = "NIGHT" /\ b.phase # "NIGHT") =>
       b.phase \in {"DAY_DISCUSSION", "GAME_OVER"} /\ b.nightNumber = a.nightNumber

\* the day counter moves only when a night ends, by one: in the amended
\* reading only when the night ends in DAY_DISCUSSION
DayCount(a, b) ==
  /\ b.dayNumber # a.dayNumber => (a.phase = "NIGHT" /\ b.phase # "NIGHT")
  /\ (a.phase = "NIGHT" /\ b.phase = "DAY_DISCUSSION") => b.dayNumber = a.dayNumber + 1
  /\ (a.phase = "NIGHT" /\ b.phase = "GAME_OVER") => b.dayNumber = a.dayNumber

DayCountAlways(a, b) ==
  /\ b.dayNumber # a.dayNumber => (a.phase = "NIGHT" /\ b.phase # "NIGHT")
  /\ (a.phase = "NIGHT" /\ b.phase # "NIGHT") => b.dayNumber = a.dayNumber + 1

\* C10, as amended: resolveNight on a snapshot that is not in NIGHT is
\* rejected with INVALID_PHASE; however the completing vote and the timeouts
\* interleave, a night kills at most one player and ends once, moving the day
\* counter by one when it ends in DAY_DISCUSSION and not at all when it ends
\* the game.
C10_NightResolvedOnce ==
  /\ []NightOnly
  /\ [][\A g \in GameIds : (Some(store[g]) /\ Some(store'[g])) =>
          NightStep(store[g], store'[g]) /\ DayCount(store[g], store'[g])]_vars

\* C10, as stated: the same, with the day counter moved by exactly one by
\* every night.
C10_EveryNightCountsADay ==
  /\ []NightOnly
  /\ [][\A g \in GameIds : (Some(store[g]) /\ Some(store'[g])) =>
          NightStep(store[g], store'[g]) /\ DayCountAlways(store[g], store'[g])]_vars

\* a first night that killed and ended the game: the day counter did not move
C10_NightEndedGame ==
  \E game \in Stored :
    /\ game.phase = "GAME_OVER"
    /\ game.dayNumber = 1
    /\ game.lastKilledId # Null
    /\ game.dayNominations = EmptyMap

\* a timeout set and not yet run
PendingTimer(g) == Some(timers[g]) /\ ~timers[g].fired

\* the timer PhaseTimer.schedule leaves for a snapshot stored at time t
TimerFor(game, t) ==
  IF game.phase \in {"LOBBY", "GAME_OVER"} THEN NoTimer
  ELSE [at |-> Max2(t, game.phaseEndsAt), fired |-> FALSE]

TimerMatchesRoom ==
  \A g \in GameIds :
    /\ PendingTimer(g) =>
         /\ Some(store[g])
         /\ store[g].phase \notin {"LOBBY", "GAME_OVER"}
         /\ timers[g].at >= store[g].phaseEndsAt
    /\ (Some(store[g]) /\ store[g].phase \in {"LOBBY", "GAME_OVER"}) => ~Some(timers[g])

\* C11: a room has one timer slot, and what is pending in it is the deadline
\* of the stored snapshot: no timer is pending for a room in LOBBY or
\* GAME_OVER, and every step that stores a new snapshot of a room replaces
\* the room's timer by the one scheduled for that snapshot.
C11_OneTimerOfTheStoredPhase ==
  /\ []TimerMatchesRoom
  /\ [][\A g \in GameIds :
          (Some(store'[g]) /\ store'[g] # store[g]) => timers'[g] = TimerFor(store'[g], now)]_vars

\* a trial opened by a nomination: its deadline has replaced the discussion's
C11_TrialTimerReplacedDiscussion ==
  \E g \in GameIds :
    /\ Some(store[g])
    /\ store[g].phase = "TRIAL"
    /\ PendingTimer(g)
    /\ timers[g].at = store[g].phaseEndsAt
    /\ timers[g].at < NightMs + DayDiscussionMs

TimedPhases == {"NIGHT", "DAY_DISCUSSION", "TRIAL", "DAY_VERDICT"}

\* C12: with timeouts run once their delay has elapsed, whatever the clients
\* do or do not do, a room in NIGHT, DAY_DISCUSSION, TRIAL or DAY_VERDICT
\* eventually leaves that phase (within the nights explored).
C12_TimedPhasesEnd ==
  \A g \in GameIds, p \in TimedPhases :
    (Some(store[g]) /\ store[g].phase = p /\ InBounds)
      ~> (Some(store[g]) /\ store[g].phase # p)

\* a second night that only timeouts can have led to: nobody voted, nobody died
C12_SecondNightByTimeouts ==
  \E game \in Stored :
    /\ game.phase = "NIGHT"
    /\ game.nightNumber = 2
    /\ DeadIds(game) = {}
    /\ game.lastKilledId = Null
    /\ \E i \in 1..Len(game.players) : ~game.players[i].connected

\* C13: no stored snapshot is in NIGHT with a vote of every living traitor,
\* nor in DAY_VERDICT with a ballot of every living player: the handler of
\* the completing vote has resolved the phase before it returned.
C13_CompleteBallotsResolved ==
  \A game \in Stored :
    /\ game.phase = "NIGHT" =>
         \E t \in LivingTraitors(game) :
           t \notin DOMAIN game.nightVotes \/ game.nightVotes[t] = Null
    /\ game.phase = "DAY_VERDICT" =>
         \E v \in LivingIds(game) :
           v \notin DOMAIN game.verdictVotes \/ game.verdictVotes[v] = Null

\* a night that the vote ended, before its deadline
C13_NightEndedByVote ==
  \E game \in Stored :
    /\ game.phase = "DAY_DISCUSSION"
    /\ game.dayNumber = 2
    /\ game.lastKilledId # Null
    /\ now < NightMs

\* C14: a close releases the binding; in LOBBY the player leaves the list
\* (and the list keeps a host), in any other phase the player stays seated,
\* disconnected, as alive as before.
C14_CloseVacatesLobbySeat ==
  \A c \in Bound :
    /\ ~Some(detach(World, c).contexts[c])
    /\ store[contexts[c].gameId].phase = "LOBBY" =>
         /\ ~HasPlayer(detach(World, c).store[contexts[c].gameId].players,
                       contexts[c].playerId)
         /\ Len(detach(World, c).store[contexts[c].gameId].players) > 0 =>
              Some(Host(detach(World, c).store[contexts[c].gameId]))
    /\ store[contexts[c].gameId].phase # "LOBBY" =>
         /\ HasPlayer(detach(World, c).store[contexts[c].gameId].players,
                      contexts[c].playerId)
         /\ ~getPlayer(detach(World, c).store[contexts[c].gameId].players,
                       contexts[c].playerId).connected
         /\ getPlayer(detach(World, c).store[contexts[c].gameId].players,
                      contexts[c].playerId).alive
              = getPlayer(store[contexts[c].gameId].players, contexts[c].playerId).alive

\* the living of a role, counted on the player list
AliveOf(game, role) ==
  Cardinality({i \in 1..Len(game.players) :
                 game.players[i].alive /\ game.players[i].role = role})
\* the outcome the rule gives s living subjects and t living traitors
WinOf(s, t) ==
  IF s + t = 0 THEN "DRAW"
  ELSE IF t = 0 THEN "SUBJECTS"
  ELSE IF t >= s THEN "TRAITORS"
  ELSE Null
\* game without its dead players
Buried(game) == [game EXCEPT !.players = SelectSeq(game.players, LAMBDA p : p.alive)]

\* C15: checkWin of a snapshot without a winner is DRAW when nobody lives,
\* SUBJECTS when no traitor lives and somebody does, TRAITORS when the living
\* traitors are at least as many as the living subjects, null otherwise; the
\* dead do not count.
C15_WinByLivingCounts ==
  \A game \in Stored :
    game.winner = Null =>
      /\ checkWin(game) = WinOf(AliveOf(game, "SUBJECT"), AliveOf(game, "TRAITOR"))
      /\ checkWin(Buried(game)) = checkWin(game)

\* a night resolved into a traitor win at parity, with dead players seated
C15_ParityEndsGame ==
  \E game \in Stored :
    /\ now > 0
    /\ game.phase = "GAME_OVER"
    /\ game.winner = "TRAITORS"
    /\ AliveOf(game, "SUBJECT") = AliveOf(game, "TRAITOR")
    /\ AliveOf(game, "TRAITOR") = 1
    /\ DeadIds(game) # {}

\* the ballots of the living for a choice
BallotsFor(game, choice) ==
  Cardinality({v \in DOMAIN game.verdictVotes :
                 game.verdictVotes[v] = choice /\ v \in LivingIds(game)})

\* C16: resolveDayVerdict kills the accused if and only if the living cast
\* more HANG than SPARE ballots; a tie, 0-0 included, spares; nobody else dies.
C16_HangOnlyByMajority ==
  \A game \in Stored :
    game.phase = "DAY_VERDICT" =>
      /\ ~IsErr(resolveDayVerdict(game, now))
      /\ (game.accusedId \in DeadIds(resolveDayVerdict(game, now)))
           <=> (BallotsFor(game, "HANG") > BallotsFor(game, "SPARE"))
      /\ DeadIds(resolveDayVerdict(game, now)) \ DeadIds(game) \subseteq {game.accusedId}

\* a verdict with one HANG, one SPARE and a ballot not cast: the accused lives
C16_TieSpares ==
  \E game \in Stored :
    /\ game.phase = "DAY_VERDICT"
    /\ BallotsFor(game, "HANG") = 1
    /\ BallotsFor(game, "SPARE") = 1
    /\ \E v \in DOMAIN game.verdictVotes : game.verdictVotes[v] = Null
    /\ game.accusedId \in LivingIds(resolveDayVerdict(game, now))

\* the night votes naming t, and the targets no target outvotes
NightTally(game, t) ==
  Cardinality({v \in DOMAIN game.nightVotes : game.nightVotes[v] = t})
NightNamed(game) == {game.nightVotes[v] : v \in DOMAIN game.nightVotes} \ {Null}
TopTargets(game) ==
  {t \in NightNamed(game) : \A u \in NightNamed(game) : NightTally(game, u) <= NightTally(game, t)}

\* what resolveNight did to a night: it killed nobody but a top target, names
\* whom it killed, and with one living top target killed that one
NightPick(game, next) ==
  /\ ~IsErr(next)
  /\ DeadIds(next) \ DeadIds(game) \subseteq TopTargets(game)
  /\ Cardinality(DeadIds(next) \ DeadIds(game)) <= 1
  /\ next.lastKilledId # Null => DeadIds(next) \ DeadIds(game) = {next.lastKilledId}
  /\ next.lastKilledId = Null => DeadIds(next) = DeadIds(game)
  /\ \A t \in LivingIds(game) : TopTargets(game) = {t} => next.lastKilledId = t
  /\ (TopTargets(game) # {} /\ TopTargets(game) \subseteq LivingIds(game)) =>
       next.lastKilledId \in TopTargets(game)

\* C17: resolveNight kills only a target holding the maximum vote count: the
\* one that holds it alone, or, on a tie, the tied target that the random
\* value selects; a target with fewer votes is never killed.
C17_VictimHoldsTopScore ==
  \A game \in Stored, k \in Rand :
    game.phase = "NIGHT" => NightPick(game, resolveNight(game, now, k))

\* a tie of two living targets, outvoting nobody, that two random values
\* settle differently
C17_TieSettledByRandom ==
  \E game \in Stored :
    /\ game.phase = "NIGHT"
    /\ Cardinality(TopTargets(game)) = 2
    /\ TopTargets(game) \subseteq LivingIds(game)
    /\ \E j \in Rand, k \in Rand :
         resolveNight(game, now, j).lastKilledId # resolveNight(game, now, k).lastKilledId

\* the nominations naming t
NamedBy(game, t) ==
  Cardinality({v \in DOMAIN game.dayNominations : game.dayNominations[v] = t})

\* what recordNomination did: the voter's nomination replaced, the others
\* kept, the trial of the target opened exactly at the strict majority of
\* the living
Nominated(game, voterId, targetId, next) ==
  /\ ~IsErr(next)
  /\ DOMAIN next.dayNominations = DOMAIN game.dayNominations \cup {voterId}
  /\ \A v \in DOMAIN next.dayNominations :
       next.dayNominations[v] = IF v = voterId THEN targetId ELSE game.dayNominations[v]
  /\ next.phase \in {"DAY_DISCUSSION", "TRIAL"}
  /\ (next.phase = "TRIAL")
       <=> (NamedBy(next, targetId) >= (Cardinality(LivingIds(game)) \div 2) + 1)
  /\ next.accusedId = IF next.phase = "TRIAL" THEN targetId ELSE Null

\* C18: recordNomination opens the trial of the target if and only if, the
\* nomination recorded, the nominations naming the target are at least
\* floor(L/2)+1, L the number of living players before the action.
C18_TrialAtStrictMajority ==
  \A game \in Stored :
    game.phase = "DAY_DISCUSSION" =>
      \A voterId \in LivingIds(game), targetId \in LivingIds(game) :
        Nominated(game, voterId, targetId, recordNomination(game, voterId, targetId, now))

\* five living players, three nominations: a trial; and two do not open one
C18_ThreeOfFive ==
  \E game \in Stored :
    /\ now > 0
    /\ game.phase = "TRIAL"
    /\ Cardinality(LivingIds(game)) = 5
    /\ NamedBy(game, game.accusedId) = 3

\* the traitor's connection and a living subject
TraitorVotes(c, t) ==
  /\ getPlayer(store[contexts[c].gameId].players, contexts[c].playerId).role = "TRAITOR"
  /\ t \in LivingIds(store[contexts[c].gameId])
  /\ getPlayer(store[contexts[c].gameId].players, t).role = "SUBJECT"

\* the room after the traitor's vote for t: the night is over and t is dead
KilledAtOnce(game, t, w) ==
  /\ ~Thrown(w)
  /\ w.store[game.gameId].phase # "NIGHT"
  /\ t \in DeadIds(w.store[game.gameId])
  /\ w.store[game.gameId].lastKilledId = t

\* a started room of three has one traitor and, at night, one night-vote entry
OneTraitor ==
  \A game \in Stored :
    (game.phase # "LOBBY" /\ Len(game.players) = 3) =>
      /\ Cardinality({i \in 1..3 : game.players[i].role = "TRAITOR"}) = 1
      /\ game.phase = "NIGHT" => Cardinality(DOMAIN game.nightVotes) = 1

\* the first night of a room of three, everybody alive
FirstNight(c) ==
  /\ store[contexts[c].gameId].phase = "NIGHT"
  /\ store[contexts[c].gameId].nightNumber = 1
  /\ Len(store[contexts[c].gameId].players) = 3
  /\ DeadIds(store[contexts[c].gameId]) = {}

NightVoteBy(c, t, k) ==
  handleNightVote(World, c, [gameId |-> contexts[c].gameId,
                             playerId |-> contexts[c].playerId, targetId |-> t], k)

\* C19, as amended: in a room of three created with minPlayers 3, after the
\* start there is one traitor and one night-vote entry; the traitor's vote
\* for a living subject resolves the night at once, kills the target and sets
\* lastKilledId; one traitor then faces one subject, so the room moves to
\* GAME_OVER, won by the traitors, and dayNumber stays.
C19_RoomOfThreeEndsAtParity ==
  /\ OneTraitor
  /\ \A c \in Bound, t \in PlayerIds, k \in Rand :
       (FirstNight(c) /\ TraitorVotes(c, t)) =>
         /\ KilledAtOnce(store[contexts[c].gameId], t, NightVoteBy(c, t, k))
         /\ NightVoteBy(c, t, k).store[contexts[c].gameId].phase = "GAME_OVER"
         /\ NightVoteBy(c, t, k).store[contexts[c].gameId].winner = "TRAITORS"
         /\ NightVoteBy(c, t, k).store[contexts[c].gameId].dayNumber
              = store[contexts[c].gameId].dayNumber

\* C19, as stated: the same vote moves the room to DAY_DISCUSSION with
\* dayNumber incremented.
C19_RoomOfThreeSeesTheDay ==
  /\ OneTraitor
  /\ \A c \in Bound, t \in PlayerIds, k \in Rand :
       (FirstNight(c) /\ TraitorVotes(c, t)) =>
         /\ KilledAtOnce(store[contexts[c].gameId], t, NightVoteBy(c, t, k))
         /\ NightVoteBy(c, t, k).store[contexts[c].gameId].phase = "DAY_DISCUSSION"
         /\ NightVoteBy(c, t, k).store[contexts[c].gameId].dayNumber
              = store[contexts[c].gameId].dayNumber + 1

\* the room of three after the traitor's vote, before the night's deadline
C19_ThreeAfterTheVote ==
  \E game \in Stored :
    /\ Len(game.players) = 3
    /\ game.phase = "GAME_OVER"
    /\ game.winner = "TRAITORS"
    /\ game.dayNumber = 1
    /\ game.lastKilledId # Null
    /\ now < NightMs

\* the sender is bound to the host of a lobby that has its players
MayStart(c) ==
  /\ store[contexts[c].gameId].phase = "LOBBY"
  /\ Len(store[contexts[c].gameId].players) >= store[contexts[c].gameId].minPlayers
  /\ \E i \in 1..Len(store[contexts[c].gameId].players) :
       /\ store[contexts[c].gameId].players[i].isHost
       /\ store[contexts[c].gameId].players[i].playerId = contexts[c].playerId

StartBy(c, k) ==
  handleStartGame(World, c, [gameId |-> contexts[c].gameId, playerId |-> contexts[c].playerId],
                  [i \in 1..(MaxIds - 1) |-> k])

\* C20: START_GAME takes the room to NIGHT, roles assigned, when the phase is
\* LOBBY, the seated players are at least minPlayers and the sender is bound
\* to the host; otherwise it is rejected with INVALID_PHASE,
\* NOT_ENOUGH_PLAYERS or NOT_HOST and no snapshot changes.
C20_StartOnlyByHostOfFullLobby ==
  \A c \in Bound, k \in Rand :
    IF MayStart(c)
    THEN /\ ~Thrown(StartBy(c, k))
         /\ StartBy(c, k).store[contexts[c].gameId].phase = "NIGHT"
         /\ StartBy(c, k).store[contexts[c].gameId].rolesAssigned
    ELSE /\ Thrown(StartBy(c, k))
         /\ StartBy(c, k).err.error \in {"INVALID_PHASE", "NOT_ENOUGH_PLAYERS", "NOT_HOST"}
         /\ StartBy(c, k).store = store

\* a full lobby: the host's start is accepted, a joiner's is not
C20_HostStartsJoinerDoesNot ==
  \E c \in Bound, d \in Bound :
    /\ MayStart(c)
    /\ ~Thrown(StartBy(c, 0))
    /\ Thrown(StartBy(d, 0))
    /\ StartBy(d, 0).err.error = "NOT_HOST"

\* the accounts seated in a room, one per seat
SeatAccounts(game) == [i \in 1..Len(game.players) |-> game.players[i].accountId]
DistinctSeats(game) ==
  \A i, j \in 1..Len(game.players) :
    game.players[i].accountId = game.players[j].accountId => i = j
\* JOIN_GAME of account a to room g on the unbound connection c
JoinBy(c, g, a) == Caught(c, handleJoinGame(World, c, [gameId |-> g, accountId |-> a]))
JoinError(c, g, a) == handleJoinGame(World, c, [gameId |-> g, accountId |-> a]).err
MayJoin(g, a) ==
  /\ store[g].phase = "LOBBY"
  /\ \A i \in 1..Len(store[g].players) : store[g].players[i].accountId # a

\* C21: a join is accepted only in LOBBY and only for an account not seated
\* in the room: it then appends the player and binds the connection; else it
\* is rejected with INVALID_PHASE or DUPLICATE_ACCOUNT, stores nothing and
\* binds nothing. No stored snapshot seats an account twice.
C21_JoinOnlyNewAccountInLobby ==
  /\ \A game \in Stored : DistinctSeats(game)
  /\ uuids < MaxIds =>
       \A c \in Conns \ Bound, g \in GameIds, a \in Accounts :
         Some(store[g]) =>
           IF MayJoin(g, a)
           THEN /\ JoinError(c, g, a) = NoErr
                /\ SeatAccounts(JoinBy(c, g, a).store[g]) = Append(SeatAccounts(store[g]), a)
                /\ SubSeq(JoinBy(c, g, a).store[g].players, 1, Len(store[g].players))
                     = store[g].players
                /\ Some(JoinBy(c, g, a).contexts[c])
                /\ JoinBy(c, g, a).contexts[c].gameId = g
           ELSE /\ JoinError(c, g, a) # NoErr
                /\ JoinError(c, g, a).error
                     = IF store[g].phase # "LOBBY" THEN "INVALID_PHASE" ELSE "DUPLICATE_ACCOUNT"
                /\ JoinBy(c, g, a).store = store
                /\ JoinBy(c, g, a).contexts = contexts
                /\ JoinBy(c, g, a).rooms = rooms
                /\ JoinBy(c, g, a).timers = timers

\* a lobby that a join has filled, where the host's account asks for a
\* second seat on another connection
C21_SecondSeatRefused ==
  \E c \in Conns \ Bound, g \in GameIds :
    /\ Some(store[g])
    /\ uuids < MaxIds
    /\ store[g].phase = "LOBBY"
    /\ Len(store[g].players) >= 2
    /\ JoinError(c, g, store[g].players[1].accountId) # NoErr
    /\ JoinError(c, g, store[g].players[1].accountId).error = "DUPLICATE_ACCOUNT"

\* a player but for the two flags that play changes
Seat(p) == [p EXCEPT !.alive = TRUE, !.connected = TRUE]
Seats(game) == [i \in 1..Len(game.players) |-> Seat(game.players[i])]

\* C22: once a room has left LOBBY, every step keeps the room, its seats in
\* their order, and each seat's player id, account and role: only the
\* alive and connected flags of a player change.
C22_SeatsAndRolesFixedAfterStart ==
  [][\A g \in GameIds :
       (Some(store[g]) /\ store[g].phase # "LOBBY") =>
          /\ Some(store'[g])
          /\ store'[g].phase # "LOBBY"
          /\ Seats(store'[g]) = Seats(store[g])]_vars

\* a game under way where one player has died and another has left
C22_DeadAndGoneStillSeated ==
  \E game \in Stored :
    /\ game.phase \notin {"LOBBY", "GAME_OVER"}
    /\ game.rolesAssigned
    /\ DeadIds(game) # {}
    /\ \E i \in 1..Len(game.players) :
         ~game.players[i].connected /\ game.players[i].alive

\* the senders resolveChatRoute may be given: a seated player, of any role,
\* alive or dead
Senders(game) ==
  {[game.players[i] EXCEPT !.role = role, !.alive = alive] :
     i \in 1..Len(game.players), role \in Roles, alive \in BOOLEAN}
\* the audience the chat rule gives a sender, Null when it gives none
AudienceOf(phase, role, alive) ==
  CASE phase \in {"LOBBY", "GAME_OVER"} -> "ROOM"
    [] phase \in {"DAY_DISCUSSION", "DAY_VERDICT"} -> IF alive THEN "ROOM" ELSE Null
    [] phase = "NIGHT" -> IF alive /\ role = "TRAITOR" THEN "TRAITORS_ONLY" ELSE Null
    [] phase = "TRIAL" -> Null
ChatRouted(game, sender, route) ==
  IF AudienceOf(game.phase, sender.role, sender.alive) # Null
  THEN /\ ~IsErr(route)
       /\ route.audience = AudienceOf(game.phase, sender.role, sender.alive)
  ELSE /\ IsErr(route)
       /\ route.error = "INVALID_CHAT"
       /\ (game.phase \in {"DAY_DISCUSSION", "DAY_VERDICT"})
            <=> (route.message = <<"Dead players cannot chat during day">>)

PhaseEdges ==
  {<<"LOBBY", "NIGHT">>, <<"NIGHT", "DAY_DISCUSSION">>, <<"NIGHT", "GAME_OVER">>,
   <<"DAY_DISCUSSION", "TRIAL">>, <<"DAY_DISCUSSION", "NIGHT">>,
   <<"TRIAL", "DAY_VERDICT">>, <<"DAY_VERDICT", "NIGHT">>, <<"DAY_VERDICT", "GAME_OVER">>}

\* C24: whatever frames, closes and timeouts interleave, a step that changes
\* the phase of a room follows an edge of the phase flow.
C24_PhaseChangesAlongTheFlow ==
  [][\A g \in GameIds :
       (Some(store[g]) /\ Some(store'[g]) /\ store'[g].phase # store[g].phase) =>
          <<store[g].phase, store'[g].phase>> \in PhaseEdges]_vars

\* a game that a verdict ended on the first day: LOBBY, NIGHT,
\* DAY_DISCUSSION, TRIAL, DAY_VERDICT and GAME_OVER in turn
C24_VerdictEndedFirstDay ==
  \E game \in Stored :
    /\ game.phase = "GAME_OVER"
    /\ game.nightNumber = 1
    /\ game.dayNumber = 2
    /\ game.winner = "SUBJECTS"
    /\ game.lastKilledId \in DeadIds(game)

\* a night whose vote map holds the entries of the voters in D only
Scheduled(game, D) == [game EXCEPT !.nightVotes = [v \in D |-> game.nightVotes[v]]]
\* what the night vote of voterId for targetId requires
MayVoteAtNight(game, voterId, targetId) ==
  /\ game.phase = "NIGHT"
  /\ HasPlayer(game.players, voterId)
  /\ getPlayer(game.players, voterId).alive
  /\ getPlayer(game.players, voterId).role = "TRAITOR"
  /\ voterId \in DOMAIN game.nightVotes
  /\ HasPlayer(game.players, targetId)
  /\ getPlayer(game.players, targetId).alive
NightVoteRecorded(game, voterId, targetId, next) ==
  IF MayVoteAtNight(game, voterId, targetId)
  THEN next = [game EXCEPT !.nightVotes = MapSet(game.nightVotes, voterId, targetId)]
  ELSE IsErr(next)

\* C25: recordNightVote records the vote if the phase is NIGHT, the voter is
\* a living traitor with an entry in the night-vote map and the target is a
\* living player, and rejects it with a typed error in every other case.
C25_NightVoteOnlyIfScheduled ==
  \A game \in Stored :
    \A D \in SUBSET DOMAIN game.nightVotes :
      \A voterId \in Ids(game.players) \cup {""}, targetId \in Ids(game.players) \cup {""} :
        NightVoteRecorded(Scheduled(game, D), voterId, targetId,
                          recordNightVote(Scheduled(game, D), voterId, targetId))

\* the alive flags of a snapshot, seat by seat
Lives(game) == [i \in 1..Len(game.players) |-> game.players[i].alive]
\* a night that resolved without a kill
NobodyKilled(game, next) ==
  /\ ~IsErr(next)
  /\ next.phase \in {"DAY_DISCUSSION", "GAME_OVER"}
  /\ Lives(next) = Lives(game)
  /\ next.lastKilledId = Null

\* C26: when the target that night resolution selects is not alive,
\* resolveNight completes without an error, changes no alive flag and leaves
\* lastKilledId null.
C26_DeadTargetIsNotKilled ==
  \A game \in Stored, k \in Rand :
    (/\ game.phase = "NIGHT"
     /\ NightVictim(game, k) # Null
     /\ \/ NightVictim(game, k) \in DeadIds(game)
        \/ TopTargets(game) \subseteq DeadIds(game))
      => NobodyKilled(game, resolveNight(game, now, k))

\* a night whose votes all name a dead player while others live: it ends
\* without a kill
C26_VotesForTheDead ==
  \E game \in Stored :
    /\ game.phase = "NIGHT"
    /\ TopTargets(game) # {}
    /\ TopTargets(game) \subseteq DeadIds(game)
    /\ Cardinality(LivingIds(game)) >= 2
    /\ NobodyKilled(game, resolveNight(game, now, 0))

\* the outcome the win rule gives the players of a snapshot
Verdict(game) == WinOf(AliveOf(game, "SUBJECT"), AliveOf(game, "TRAITOR"))
\* what a resolution made of the players it left: the end of the game with
\* the winner they give, or the phase that follows when they give none
Judged(next, following) ==
  /\ ~IsErr(next)
  /\ IF Verdict(next) # Null
     THEN next.phase = "GAME_OVER" /\ next.winner = Verdict(next)
     ELSE next.phase = following /\ next.winner = Null
\* no transition leaves the end of the game
Final(game) ==
  /\ IsErr(startNight(game, now))
  /\ IsErr(resolveNight(game, now, 0))
  /\ IsErr(skipDayToNight(game, now))
  /\ IsErr(startDayVerdict(game, now))
  /\ IsErr(resolveDayVerdict(game, now))
  /\ \A v \in Ids(game.players), t \in Ids(game.players) :
       /\ IsErr(recordNomination(game, v, t, now))
       /\ IsErr(recordNightVote(game, v, t))
       /\ IsErr(startTrial(game, t, now))

\* C27: a night or verdict resolution looks for the winner among the players
\* its kill has left: it ends in GAME_OVER with that winner exactly when
\* there is one, and otherwise in DAY_DISCUSSION (night) or NIGHT (verdict);
\* from GAME_OVER no transition goes on.
C27_WinJudgedAfterTheKill ==
  \A game \in Stored :
    /\ game.phase = "NIGHT" =>
         \A k \in Rand : Judged(resolveNight(game, now, k), "DAY_DISCUSSION")
    /\ game.phase = "DAY_VERDICT" => Judged(resolveDayVerdict(game, now), "NIGHT")
    /\ game.phase = "GAME_OVER" => Final(game)

\* a game that a kill has just ended: with the victim alive it would go on
C27_KillEndedGame ==
  \E game \in Stored :
    /\ now > 0
    /\ game.phase = "GAME_OVER"
    /\ game.lastKilledId \in DeadIds(game)
    /\ game.winner = Verdict(game)
    /\ Verdict([game EXCEPT !.players =
                  [i \in 1..Len(game.players) |->
                     IF game.players[i].playerId = game.lastKilledId
                     THEN [game.players[i] EXCEPT !.alive = TRUE]
                     ELSE game.players[i]]]) = Null

\* what the timeout of a phase makes of a snapshot
TimedOut(game, next, k) ==
  /\ ~IsErr(next)
  /\ Seats(next) = Seats(game)
  /\ CASE game.phase = "NIGHT" -> next = resolveNight(game, now, k)
       [] game.phase = "DAY_DISCUSSION" ->
            /\ next.phase = "NIGHT"
            /\ next.nightNumber = game.nightNumber + 1
            /\ next.dayNominations = EmptyMap
            /\ next.accusedId = Null
            /\ Lives(next) = Lives(game)
            /\ next.phaseEndsAt = now + NightMs
       [] game.phase = "TRIAL" ->
            /\ next.phase = "DAY_VERDICT"
            /\ next.accusedId = game.accusedId
            /\ next.verdictVotes = [v \in LivingIds(game) |-> Null]
            /\ Lives(next) = Lives(game)
            /\ next.phaseEndsAt = now + DayVerdictMs
       [] game.phase = "DAY_VERDICT" -> next = resolveDayVerdict(game, now)
\* the GAME_STATE frames sent for a snapshot: one to each connection bound to
\* the room, showing the snapshot's phase
Told(w, g) ==
  /\ \A c \in Bound :
       contexts[c].gameId = g =>
         \E i \in 1..Len(w.outbox) :
           /\ w.outbox[i].to = c
           /\ w.outbox[i].type = "GAME_STATE"
           /\ w.outbox[i].game.phase = w.store[g].phase
  /\ \A i \in 1..Len(w.outbox) :
       w.outbox[i].type = "GAME_STATE" /\ w.outbox[i].to \in Bound
\* the timer of room g once the timeout has run
Rearmed(w, g) ==
  (Some(w.timers[g]) /\ ~w.timers[g].fired) <=> (w.store[g].phase # "GAME_OVER")

\* C28: a timer firing applies the timeout transition of the stored phase
\* (NIGHT resolves the night, DAY_DISCUSSION clears the nominations and
\* enters NIGHT, TRIAL seeds null ballots and enters DAY_VERDICT, DAY_VERDICT
\* resolves the verdict), stores and broadcasts the result and arms a new
\* timer unless the game is over; for a missing room or one in LOBBY or
\* GAME_OVER it changes nothing.
C28_TimeoutAppliesPhaseTransition ==
  \A g \in GameIds, k \in Rand :
    IF Some(store[g]) /\ store[g].phase \in TimedPhases
    THEN /\ TimedOut(store[g], onPhaseTimeout(World, g, k).store[g], k)
         /\ Told(onPhaseTimeout(World, g, k), g)
         /\ Rearmed(onPhaseTimeout(World, g, k), g)
         /\ onPhaseTimeout(World, g, k).contexts = contexts
         /\ onPhaseTimeout(World, g, k).rooms = rooms
    ELSE onPhaseTimeout(World, g, k) = World

\* a verdict that only the trial's timeout can have opened, its timer armed
C28_VerdictOpenedByTimeout ==
  \E g \in GameIds :
    /\ Some(store[g])
    /\ store[g].phase = "DAY_VERDICT"
    /\ store[g].phaseEndsAt = now + DayVerdictMs
    /\ \A v \in DOMAIN store[g].verdictVotes : store[g].verdictVotes[v] = Null
    /\ PendingTimer(g)
    /\ timers[g].at = store[g].phaseEndsAt

\* the players of a role, dead or alive
CastOf(game, role) ==
  Cardinality({i \in 1..Len(game.players) : game.players[i].role = role})
\* the game a successful start leaves
Started(game, next) ==
  /\ next.phase = "NIGHT"
  /\ next.rolesAssigned
  /\ Ids(next.players) = Ids(game.players)
  /\ Len(next.players) = Len(game.players)
  /\ CastOf(next, "TRAITOR") = Max2(1, Len(game.players) \div 4)
  /\ CastOf(next, "SUBJECT") = Len(game.players) - Max2(1, Len(game.players) \div 4)
  /\ \A i \in 1..Len(next.players) : next.players[i].alive
\* assignRoles on a snapshot whose roles are assigned: the same snapshot in
\* LOBBY, a phase error elsewhere
DealtOnce(game, next) ==
  IF game.phase = "LOBBY" THEN next = game
  ELSE IsErr(next) /\ next.error = "INVALID_PHASE"

\* C29, as amended: a successful start of n seated players leaves
\* max(1, floor(n/4)) traitors, the others subjects, everybody alive and
\* rolesAssigned true; assignRoles of a snapshot whose roles are assigned
\* returns it unchanged in LOBBY and is rejected with INVALID_PHASE in every
\* other phase.
C29_TraitorsDealtOnceFromLobby ==
  \A game \in Stored : \A rs \in Shuffles(MaxLobby) :
    /\ (game.phase = "LOBBY" /\ ~game.rolesAssigned) =>
         /\ ~IsErr(startGame(game, now, rs))
         /\ Started(game, startGame(game, now, rs))
    /\ game.rolesAssigned => DealtOnce(game, assignRoles(game, rs))

\* C29, as stated: assignRoles of any snapshot whose roles are assigned
\* returns it unchanged.
C29_AssignRolesIdempotent ==
  \A game \in Stored : \A rs \in Shuffles(MaxLobby) :
    /\ (game.phase = "LOBBY" /\ ~game.rolesAssigned) =>
         /\ ~IsErr(startGame(game, now, rs))
         /\ Started(game, startGame(game, now, rs))
    /\ game.rolesAssigned => assignRoles(game, rs) = game

\* a started game of eight: two traitors and six subjects, all alive
C29_TwoTraitorsAmongEight ==
  \E game \in Stored :
    /\ game.phase = "NIGHT"
    /\ Len(game.players) = 8
    /\ CastOf(game, "TRAITOR") = 2
    /\ DOMAIN game.nightVotes = LivingTraitors(game)
    /\ Cardinality(LivingIds(game)) = 8

\* the rejection of an action in which pid must be a living player: the
\* phase error outside the action's phase, else the error of the unknown or
\* of the dead player
Refused(game, phase, pid, r) ==
  /\ IsErr(r)
  /\ r.error = IF game.phase # phase THEN "INVALID_PHASE"
               ELSE IF ~HasPlayer(game.players, pid) THEN "PLAYER_NOT_FOUND"
               ELSE "PLAYER_DEAD"
\* a verdict whose ballot map has no entry for v
Unlisted(game, v) ==
  [game EXCEPT !.verdictVotes = [x \in DOMAIN game.verdictVotes \ {v} |-> game.verdictVotes[x]]]

\* C30: the night vote, the nomination and the verdict vote of an actor who
\* is dead or unknown are rejected with a typed error, no snapshot returned;
\* so are a nomination of a dead or unknown target, a verdict vote of a
\* living player without an entry in the ballot map, and a verdict vote
\* whose choice is neither HANG nor SPARE.
C30_OnlyTheLivingBallot ==
  \A game \in Stored :
    \A actor \in Ids(game.players) \cup {""}, other \in Ids(game.players) \cup {""} :
      /\ actor \notin LivingIds(game) =>
           /\ Refused(game, "NIGHT", actor, recordNightVote(game, actor, other))
           /\ Refused(game, "DAY_DISCUSSION", actor, recordNomination(game, actor, other, now))
           /\ \A choice \in PayloadChoices :
                Refused(game, "DAY_VERDICT", actor, recordVerdictVote(game, actor, choice))
      /\ (actor \in LivingIds(game) /\ other \notin LivingIds(game)) =>
           Refused(game, "DAY_DISCUSSION", other, recordNomination(game, actor, other, now))
      /\ (actor \in LivingIds(game) /\ game.phase = "DAY_VERDICT") =>
           /\ \A choice \in PayloadChoices :
                /\ IsErr(recordVerdictVote(Unlisted(game, actor), actor, choice))
                /\ recordVerdictVote(Unlisted(game, actor), actor, choice).error = "NOT_A_VOTER"
           /\ actor \in DOMAIN game.verdictVotes =>
                \A choice \in PayloadChoices \ Choices :
                  /\ IsErr(recordVerdictVote(game, actor, choice))
                  /\ recordVerdictVote(game, actor, choice).error = "INVALID_CHOICE"

\* a verdict with a dead player seated: the dead player's ballot is refused,
\* a living voter's ballot is taken
C30_DeadVoterAtVerdict ==
  \E game \in Stored :
    /\ game.phase = "DAY_VERDICT"
    /\ \E d \in DeadIds(game) :
         /\ IsErr(recordVerdictVote(game, d, "HANG"))
         /\ recordVerdictVote(game, d, "HANG").error = "PLAYER_DEAD"
    /\ \E v \in LivingIds(game) : ~IsErr(recordVerdictVote(game, v, "HANG"))

\* texts at the limits of the accepted length: blank, one character, 300 and
\* 301 characters after trimming
ChatTexts ==
  Texts \cup {[len |-> 3, ws |-> 2], [len |-> 300, ws |-> 0], [len |-> 301, ws |-> 1],
              [len |-> 301, ws |-> 0], [len |-> 0, ws |-> 0]}
\* the gateway after connection c sent a TRIAL_CHAT with ids in and text
AfterChat(c, in, text) ==
  Caught(c, handleTrialChat(World, c, [gameId |-> in[1], playerId |-> in[2], text |-> text]))
\* c is bound to the accused of a stored trial and names itself in the payload
AccusedSpeaks(c, in) ==
  /\ Some(contexts[c])
  /\ in = <<contexts[c].gameId, contexts[c].playerId>>
  /\ Some(storeGet(World, in[1]))
  /\ storeGet(World, in[1]).phase = "TRIAL"
  /\ storeGet(World, in[1]).accusedId = in[2]
\* the connections whose context names the room
BoundTo(g) == {c \in Conns : Some(contexts[c]) /\ contexts[c].gameId = g}

\* C31: a TRIAL_CHAT is sent to every connection of the room exactly when the
\* stored phase is TRIAL, the sender is bound to the accused and the trimmed
\* text has 1 to 300 characters; otherwise the sender alone gets an ERROR and
\* no chat is sent. In both cases the store, the timers, the contexts and the
\* rooms are as before.
C31_TrialChatOnlyOfTheAccused ==
  \A c \in Conns : \A in \in Payloads(c) : \A text \in ChatTexts :
    LET w == AfterChat(c, in, text)
        chat == [to |-> c, type |-> "TRIAL_CHAT", gameId |-> in[1], playerId |-> in[2],
                 text |-> TrimLen(text), timestamp |-> now]
    IN /\ w.store = store /\ w.timers = timers
       /\ w.contexts = contexts /\ w.rooms = rooms
       /\ IF AccusedSpeaks(c, in) /\ TrimLen(text) \in 1..MaxTrialChat
          THEN /\ Len(w.outbox) = Len(rooms[in[1]])
               /\ \A i \in 1..Len(w.outbox) : w.outbox[i] = [chat EXCEPT !.to = rooms[in[1]][i]]
               /\ BoundTo(in[1]) = {rooms[in[1]][i] : i \in 1..Len(rooms[in[1]])}
          ELSE /\ Len(w.outbox) = 1
               /\ w.outbox[1].to = c
               /\ w.outbox[1].type = "ERROR"

\* a trial whose accused is connected, in a room of several connections of
\* which another is bound to a player who is not accused
C31_AccusedAndAudience ==
  \E c \in Conns, d \in Conns :
    /\ c # d
    /\ AccusedSpeaks(c, Own(c))
    /\ Some(contexts[d]) /\ contexts[d].gameId = contexts[c].gameId
    /\ Len(AfterChat(c, Own(c), [len |-> 5, ws |-> 1]).outbox) >= 2
    /\ AfterChat(d, Own(d), [len |-> 5, ws |-> 1]).outbox[1].type = "ERROR"

\* the gateway after each message a client may send, each close and each
\* timeout, from the present state (a room is created while an id is free)
Handled ==
  {Caught(c, handleCreateGame(World, c, [accountId |-> AccountOf(c), minPlayers |-> m])) :
     c \in {x \in Conns : Some(contexts[x]) \/ FreeGids(World) # {}}, m \in MinPlayersInputs}
  \cup {Caught(c, handleJoinGame(World, c, [gameId |-> g, accountId |-> AccountOf(c)])) :
          c \in Conns, g \in PayloadGids}
  \cup {Caught(c, handleStartGame(World, c, [gameId |-> Own(c)[1], playerId |-> Own(c)[2]],
                                  [i \in 1..(MaxIds - 1) |-> k])) : c \in Conns, k \in Rand}
  \cup {Caught(c, handleLeaveGame(World, c, [gameId |-> Own(c)[1], playerId |-> Own(c)[2]])) :
          c \in Conns}
  \cup {Caught(c, handleNightVote(World, c, [gameId |-> Own(c)[1], playerId |-> Own(c)[2],
                                             targetId |-> t], k)) :
          c \in Conns, t \in Targets, k \in Rand}
  \cup {Caught(c, handleDayNominate(World, c, [gameId |-> Own(c)[1], playerId |-> Own(c)[2],
                                               targetId |-> t])) : c \in Conns, t \in Targets}
  \cup {Caught(c, handleVerdictVote(World, c, [gameId |-> Own(c)[1], playerId |-> Own(c)[2],
                                               choice |-> x])) : c \in Conns, x \in PayloadChoices}
  \cup {detach(World, c) : c \in Conns}
  \cup {onPhaseTimeout(World, g, k) : g \in GameIds, k \in Rand}
\* the positions of the GAME_STATE frames sent to connection c
StatesTo(w, c) ==
  {i \in 1..Len(w.outbox) : w.outbox[i].to = c /\ w.outbox[i].type = "GAME_STATE"}
\* c is bound to room g and to a player seated in its stored snapshot
Watches(w, c, g) ==
  /\ Some(w.contexts[c])
  /\ w.contexts[c].gameId = g
  /\ HasPlayer(w.store[g].players, w.contexts[c].playerId)
\* the last GAME_STATE frame sent to c shows the stored snapshot of g to c's player
ShownLast(w, c, g) ==
  /\ StatesTo(w, c) # {}
  /\ LET last == CHOOSE i \in StatesTo(w, c) : \A j \in StatesTo(w, c) : j <= i
     IN w.outbox[last].game = buildGameView(w.store[g], w.contexts[c].playerId)

\* one fan-out by itself sent c the view of the snapshot it stored
ShownOnce(w, c, g) ==
  \E i \in StatesTo(w, c) :
    w.outbox[i].game = buildGameView(w.store[g], w.contexts[c].playerId)

OnlyEntry(before, after, k, v) ==
  /\ DOMAIN after = DOMAIN before \cup {k}
  /\ after[k] = v
  /\ \A x \in DOMAIN before \ {k} : after[x] = before[x]
\* players after differ from before in the connected flag of pid alone
OnlyConnected(before, after, pid, flag) ==
  /\ Len(after) = Len(before)
  /\ \A i \in 1..Len(before) :
       after[i] = IF before[i].playerId = pid
                  THEN [before[i] EXCEPT !.connected = flag] ELSE before[i]
\* the gateway after c sent the ballot named kind under its own ids
AfterBallot(c, kind, x, k) ==
  LET ids == [gameId |-> contexts[c].gameId, playerId |-> contexts[c].playerId]
  IN CASE kind = "NIGHT_VOTE" ->
            Caught(c, handleNightVote(World, c, ids @@ [targetId |-> x], k))
       [] kind = "DAY_NOMINATE" ->
            Caught(c, handleDayNominate(World, c, ids @@ [targetId |-> x]))
       [] kind = "DAY_VERDICT_VOTE" ->
            Caught(c, handleVerdictVote(World, c, ids @@ [choice |-> x]))
       [] kind = "CLOSE" -> detach(World, c)
\* the ballot left the room in its phase: its deadline and its timer are as before
DeadlineKept(w, g) ==
  (~Thrown(w) /\ w.store[g].phase = store[g].phase) =>
    /\ w.store[g].phaseEndsAt = store[g].phaseEndsAt
    /\ w.timers = timers

SeatOf(players, pid) == CHOOSE i \in 1..Len(players) : players[i].playerId = pid
\* the player of before that sits at position j once the player at position
\* gone has left
Stays(before, gone, j) == IF j < gone THEN before[j] ELSE before[j + 1]
\* players after is players before without the one at position gone, the
\* others in their order; the first of them is made host when none of them
\* is, and nothing else of them changes
Left(before, after, gone) ==
  /\ Len(after) = Len(before) - 1
  /\ \A j \in 1..Len(after) :
       after[j] = IF j = 1 /\ ~\E i \in 1..Len(before) : i # gone /\ before[i].isHost
                  THEN [Stays(before, gone, j) EXCEPT !.isHost = TRUE]
                  ELSE Stays(before, gone, j)
\* LEAVE_GAME sent by c with its room and player id pid
AfterLeave(c, pid) ==
  Caught(c, handleLeaveGame(World, c, [gameId |-> contexts[c].gameId, playerId |-> pid]))

\* C34: removePlayerFromLobby of a seated player in LOBBY returns the snapshot
\* with that player taken out of the list, the others in their order and
\* unchanged, except that the first of them is made host when no host is
\* left among them; for a player who is not seated it is PLAYER_NOT_FOUND,
\* outside LOBBY it is INVALID_PHASE, and a LEAVE_GAME the gateway rejects
\* leaves the store, the timers and the bindings as they were.
C34_LeaveRemovesOneAndKeepsAHost ==
  /\ \A game \in Stored : \A pid \in PlayerIds \cup {""} :
       LET r == removePlayerFromLobby(game, pid)
       IN IF game.phase # "LOBBY" THEN IsErr(r) /\ r.error = "INVALID_PHASE"
          ELSE IF pid \notin Ids(game.players) THEN IsErr(r) /\ r.error = "PLAYER_NOT_FOUND"
          ELSE /\ ~IsErr(r)
               /\ r = [game EXCEPT !.players = r.players]
               /\ Left(game.players, r.players, SeatOf(game.players, pid))
  /\ \A c \in Bound : \A pid \in {contexts[c].playerId, ""} :
       Thrown(AfterLeave(c, pid)) => SameGateway(AfterLeave(c, pid))

\* a lobby whose first player is host without having created the room: the
\* host before has left and the first of those who stayed was made host
C34_HostHandedOn ==
  \E game \in Stored :
    /\ game.phase = "LOBBY"
    /\ Len(game.players) >= 2
    /\ game.players[1].isHost
    /\ game.players[1].playerId # PidPool[1]
    /\ \A i \in 2..Len(game.players) : ~game.players[i].isHost

\* the seated players whose isHost flag is set
Hosts(game) == {i \in 1..Len(game.players) : game.players[i].isHost}

\* C35: every stored snapshot that seats at least one player has exactly one
\* player with isHost = true.
C35_ExactlyOneHost ==
  \A game \in Stored : Len(game.players) >= 1 => Cardinality(Hosts(game)) = 1

\* the snapshot with every player shown as connected
Plugged(game) ==
  [game EXCEPT !.players = [i \in 1..Len(game.players) |->
                              [game.players[i] EXCEPT !.connected = TRUE]]]
Over(g) == Some(store[g]) /\ store[g].phase = "GAME_OVER"
\* the gateway after each join, start, vote and nomination that connection c
\* may send for room g
MovesOf(c, g) ==
  {Caught(c, handleJoinGame(World, c, [gameId |-> g, accountId |-> a])) :
     a \in {AccountOf(c), "a9"}}
  \cup {Caught(c, handleStartGame(World, c, [gameId |-> g, playerId |-> pid],
                                  [i \in 1..(MaxIds - 1) |-> 0])) : pid \in {Own(c)[2], ""}}
  \cup {Caught(c, handleNightVote(World, c, [gameId |-> g, playerId |-> Own(c)[2],
                                             targetId |-> t], 0)) : t \in Ids(store[g].players)}
  \cup {Caught(c, handleDayNominate(World, c, [gameId |-> g, playerId |-> Own(c)[2],
                                               targetId |-> t])) : t \in Ids(store[g].players)}
  \cup {Caught(c, handleVerdictVote(World, c, [gameId |-> g, playerId |-> Own(c)[2],
                                               choice |-> x])) : x \in Choices}
Moves(g) == UNION {MovesOf(c, g) : c \in Conns}
\* each of them ends in an ERROR to the sender and leaves the gateway as it was
Rejects(w) ==
  /\ Thrown(w)
  /\ SameGateway(w)
  /\ Len(w.outbox) = 1
  /\ w.outbox[1].type = "ERROR"

\* C36: in a room whose stored phase is GAME_OVER no timer is pending and
\* every join, start, night vote, nomination and verdict vote is rejected
\* with the gateway unchanged; every step leaves the room in GAME_OVER with
\* the same snapshot up to the connected flags of its players, and pending
\* no timer.
C36_GameOverIsAbsorbing ==
  /\ [](\A g \in GameIds :
          Over(g) => /\ ~PendingTimer(g)
                     /\ \A w \in Moves(g) : Rejects(w))
  /\ [][\A g \in GameIds :
          Over(g) => /\ Some(store'[g])
                     /\ Plugged(store'[g]) = Plugged(store[g])
                     /\ ~(Some(timers'[g]) /\ ~timers'[g].fired)]_vars

\* a finished game a player of which has gone since, another being still
\* connected to the room
C36_LeftAfterTheEnd ==
  \E g \in GameIds :
    /\ Over(g)
    /\ store[g].winner # Null
    /\ \E c \in Bound : contexts[c].gameId = g
    /\ \E c \in Conns :
         /\ ~Some(contexts[c])
         /\ \E i \in 1..Len(store[g].players) :
              /\ store[g].players[i].accountId = AccountOf(c)
              /\ ~store[g].players[i].connected

\* the players alive in game and dead in next, and those dead in game and
\* alive in next
Died(game, next) == LivingIds(game) \cap DeadIds(next)
Revived(game, next) == DeadIds(game) \cap LivingIds(next)
\* what the resolution of a night or of a verdict may return for game
Resolutions(game) ==
  {resolveNight(game, now, k) : k \in Rand} \cup {resolveDayVerdict(game, now)}
\* what every other transition may return for game, whoever acts
Records(game) ==
  {recordNightVote(game, a, t) : a \in Ids(game.players), t \in Ids(game.players)}
  \cup {recordNomination(game, a, t, now) : a \in Ids(game.players), t \in Ids(game.players)}
  \cup {recordVerdictVote(game, a, x) : a \in Ids(game.players), x \in Choices}
  \cup {startTrial(game, t, now) : t \in Ids(game.players)}
  \cup {setPlayerConnection(game, a, flag) : a \in Ids(game.players), flag \in BOOLEAN}
  \cup {startDayVerdict(game, now), skipDayToNight(game, now), startNight(game, now)}
  \cup {startGame(game, now, rs) : rs \in Shuffles(Len(game.players))}
  \cup {removePlayerFromLobby(game, a) : a \in Ids(game.players)}

\* C37: on a snapshot whose roles are assigned, no transition returns a
\* snapshot in which a dead player is alive; the resolution of a night and
\* of a verdict return one in which at most one more player is dead; every
\* other transition returns the alive flags as they were.
C37_DeathIsPermanentAndSingle ==
  \A game \in Stored :
    game.rolesAssigned =>
      /\ \A next \in Resolutions(game) :
           ~IsErr(next) =>
             /\ Ids(next.players) = Ids(game.players)
             /\ Revived(game, next) = {}
             /\ Cardinality(Died(game, next)) <= 1
             /\ Cardinality(LivingIds(next)) \in
                  {Cardinality(LivingIds(game)), Cardinality(LivingIds(game)) - 1}
      /\ \A next \in Records(game) :
           ~IsErr(next) =>
             /\ Died(game, next) = {}
             /\ Revived(game, next) = {}

\* a verdict with a player dead already that hangs the accused: one more is
\* dead, the dead stay dead, and the night that follows finds them so
C37_SecondDeath ==
  \E game \in Stored :
    /\ game.phase = "DAY_VERDICT"
    /\ game.rolesAssigned
    /\ DeadIds(game) # {}
    /\ ~IsErr(resolveDayVerdict(game, now))
    /\ Died(game, resolveDayVerdict(game, now)) = {game.accusedId}
    /\ DeadIds(resolveDayVerdict(game, now)) = DeadIds(game) \cup {game.accusedId}
    /\ resolveDayVerdict(game, now).phase = "NIGHT"

\* a snapshot that is being played in a phase which follows a resolution
PlayedOn(game) ==
  \/ game.phase \in {"DAY_DISCUSSION", "TRIAL", "DAY_VERDICT"}
  \/ game.phase = "NIGHT" /\ game.nightNumber >= 2

\* C38: in every stored snapshot in DAY_DISCUSSION, TRIAL or DAY_VERDICT, and
\* in every NIGHT after the first, a traitor is alive, the living traitors
\* are fewer than the living subjects, and checkWin is null.
C38_NoDecidedGameIsPlayed ==
  \A game \in Stored :
    PlayedOn(game) =>
      /\ countAlive(game.players, "TRAITOR") >= 1
      /\ countAlive(game.players, "TRAITOR") < countAlive(game.players, "SUBJECT")
      /\ checkWin(game) = Null
      /\ game.winner = Null

\* a second night with a player dead: the first night's kill left the
\* traitor outnumbered, and the day gave way to the night
C38_SecondNightUndecided ==
  \E game \in Stored :
    /\ game.phase = "NIGHT"
    /\ game.nightNumber = 2
    /\ DeadIds(game) # {}
    /\ countAlive(game.players, "TRAITOR") = 1
    /\ countAlive(game.players, "SUBJECT") = 2

\* the length of a timed phase
DurationOf(phase) ==
  CASE phase = "NIGHT" -> NightMs
    [] phase = "DAY_DISCUSSION" -> DayDiscussionMs
    [] phase = "TRIAL" -> TrialMs
    [] phase = "DAY_VERDICT" -> DayVerdictMs
\* the timer of room g is pending exactly in a timed phase, for the deadline
\* of the stored snapshot
TimerOfThePhase(g) ==
  IF Some(store[g]) /\ store[g].phase \in TimedPhases
  THEN /\ PendingTimer(g)
       /\ timers[g].at = store[g].phaseEndsAt
  ELSE ~PendingTimer(g)

TraitorsOf(game) ==
  {game.players[i].playerId : i \in {j \in 1..Len(game.players) : game.players[j].role = "TRAITOR"}}
TraitorCount(n) == Max2(1, Floor(n, 4))
\* the games that START_GAME may leave for a lobby, one for each run of the
\* values of random()
Deals(game) == {startGame(game, now, rs) : rs \in Shuffles(Len(game.players))}
\* a lobby whose roles are to be dealt and that has the players to start
Startable(game) ==
  /\ game.phase = "LOBBY"
  /\ ~game.rolesAssigned
  /\ Len(game.players) >= game.minPlayers
\* two deals of a lobby that differ in the traitors among the players other
\* than viewer
DealtApart(s, t, viewer) ==
  /\ ~IsErr(s) /\ ~IsErr(t)
  /\ TraitorsOf(s) \ {viewer} # TraitorsOf(t) \ {viewer}
\* the ids of the public player list that a view shows first
HeadOf(view, n) == {view.players[i].playerId : i \in 1..n}

\* every deal of a startable lobby shows each viewer the traitors at the head
\* of the public player list, and the deals of a lobby do differ in the
\* traitors other than a viewer who is a subject in both
TraitorsHeadTheList ==
  \A game \in Stored :
    Startable(game) =>
      /\ \A s \in Deals(game) : \A viewer \in Ids(game.players) :
           HeadOf(buildGameView(s, viewer), TraitorCount(Len(game.players))) = TraitorsOf(s)
      /\ \E s \in Deals(game), t \in Deals(game) : \E viewer \in Ids(game.players) :
           /\ DealtApart(s, t, viewer)
           /\ viewer \notin TraitorsOf(s) \cup TraitorsOf(t)

\* in every stored snapshot past the lobby, the view of each seated player
\* shows the traitors at the head of the public player list: two snapshots
\* of which a viewer is sent the same view have the same traitors
TraitorsStayAtTheHead ==
  \A game \in Stored :
    (game.phase # "LOBBY" /\ game.rolesAssigned) =>
      \A viewer \in Ids(game.players) :
        HeadOf(buildGameView(game, viewer), TraitorCount(Len(game.players))) = TraitorsOf(game)

\* C40: the views sent once roles are dealt do not show the roles of the
\* other players by the order of the public player list: for every lobby
\* that can be started there are a viewer and two games that START_GAME may
\* leave (same players, flags, phase and counters), with different traitors
\* among the other players, of which the viewer is sent the same view.
C40_OrderHidesRoles ==
  \A game \in Stored :
    Startable(game) =>
      \E viewer \in Ids(game.players) :
        \E s \in Deals(game), t \in Deals(game) :
          /\ DealtApart(s, t, viewer)
          /\ buildGameView(s, viewer) = buildGameView(t, viewer)

====
